---- MODULE Spec2Model ----
(***************************************************************************)
(* Model of tenantstore.TenantStore (store.go): the tenant connection      *)
(* cache of fiber-multitenant.  Tasks are goroutines calling the store's   *)
(* methods; every lock acquisition and every collaborator call (schema     *)
(* creation, gorm.Open, AutoMigrate, ping, close) is a step of its own, so *)
(* that interleavings of concurrent calls are explored.                     *)
(***************************************************************************)
EXTENDS Integers, Sequences, FiniteSets, TLC

\* ------------------------------------------------------------------ bounds
NumTasks == 2
MaxCalls == 3
MaxHostLen == 6
MaxChain == 3
MaxPathLen == 4

Tasks == 1..NumTasks
Keys == {"a", "b"}
EmptyKey == ""
KeyArgs == Keys \cup {EmptyKey}

None == 0
NoConn == 0
NoErr == "nil"

VARIABLES
    masterDB,         \* the master connection: whether New opened it, the Close
                      \* invocations on its *sql.DB and how many of them failed
    tenantDBs,        \* map[string]*gorm.DB : partial function Keys -> connection id
    healthCheckDone,  \* map[string]bool    : partial function Keys -> BOOLEAN
    muWriter,         \* sync.RWMutex mu: the task holding Lock, or None
    muReaders,        \* sync.RWMutex mu: the tasks holding RLock
    healthMu,         \* sync.Mutex healthMu: the task holding it, or None
    autoMigrate,      \* config.AutoMigrate && len(config.Models) > 0
    conns,            \* every connection gorm.Open returned: its key, the Close
                      \* invocations on its *sql.DB and how many of them failed
    timers,           \* pending reset goroutines (time.Sleep) per key
    pc,               \* per task: position in the method it runs
    key,              \* per task: the tenantSchema argument
    db,               \* per task: the local db / tenantDB variable
    snap,             \* per task: tenantDBs as it was when the task took mu.Lock
    made,             \* per task: ensureSchema / gorm.Open invocations of this call
    ret,              \* per task: result of the last call that returned
    calls,            \* number of calls started so far
    ensureCalls,      \* per key: invocations of ensureSchema
    openCalls,        \* per key: invocations of gorm.Open for the tenant DSN
    fails,            \* per key: construction steps that failed, by step
    removals,         \* per key: records deleted by RemoveTenantDB
    newRet,           \* what New(config) returned: its inputs, whether a store
                      \* came back, and the error
    req,              \* a resolver run: the request data it reads and its result
    mw                \* a request in the middleware handler: the configuration,
                      \* the handler's position, c.Locals and the calls it made

vars == <<masterDB, tenantDBs, healthCheckDone, muWriter, muReaders, healthMu,
          autoMigrate, conns, timers, pc, key, db, snap, made, ret, calls,
          ensureCalls, openCalls, fails, removals, newRet, req, mw>>

storeVars == <<masterDB, tenantDBs, healthCheckDone, conns, timers>>
lockVars == <<muWriter, muReaders, healthMu>>
histVars == <<ensureCalls, openCalls, fails, removals>>
tenantStoreVars == <<masterDB, tenantDBs, healthCheckDone, muWriter, muReaders,
                     healthMu, autoMigrate, conns, timers, pc, key, db, snap,
                     made, ret, calls, ensureCalls, openCalls, fails, removals>>
glueVars == <<newRet, req, mw>>

\* ------------------------------------------------------------------ helpers
\* (*TenantStore, error) as New returns it for a config that is nil or not
\* and a master DSN that gorm.Open can open or not; store says whether the
\* *TenantStore is non-nil.
NewResult(cfgNil, masterOk, e) ==
    [called |-> TRUE, cfgNil |-> cfgNil, masterOk |-> masterOk,
     store |-> (e = NoErr), err |-> e]

\* New has not been called.
NotCalled ==
    [called |-> FALSE, cfgNil |-> FALSE, masterOk |-> FALSE, store |-> FALSE,
     err |-> NoErr]

\* No resolver has run; no request is in the middleware.
NoReq ==
    [op |-> "none", host |-> <<>>, path |-> <<>>, value |-> <<>>,
     results |-> <<>>, tenant |-> <<>>,
     err |-> NoErr, status |-> 0, consulted |-> 0]

\* The keys a configuration may name for c.Locals; "" is a key left unset.
CtxKeys == {"", "tenant", "tenant_db", "org"}

\* c.Locals(key) holds nothing, a string or a *gorm.DB.
Unset == [kind |-> "unset", str |-> <<>>, db |-> NoConn]

StringValue(s) == [kind |-> "string", str |-> s, db |-> NoConn]

DBValue(d) == [kind |-> "db", str |-> <<>>, db |-> d]

\* ConfigDefault: the Config New starts from. Function-valued fields are
\* "nil", the package's own function, or "custom" for one the caller wrote.
ConfigDefault ==
    [Resolver |-> "SubdomainResolver", ContextKey |-> "tenant",
     DBContextKey |-> "tenant_db", ErrorHandler |-> "default",
     Store |-> "nil", Skip |-> FALSE, OnTenantResolved |-> FALSE]

\* New() called with no Config argument.
NoConfig == [given |-> FALSE, cfg |-> ConfigDefault]

NoMw ==
    [pc |-> "none", arg |-> NoConfig,
     Resolver |-> "nil", ErrorHandler |-> "nil", Store |-> "nil",
     ContextKey |-> "", DBContextKey |-> "", hasSkip |-> FALSE,
     hasCallback |-> FALSE, skipRet |-> "notcalled",
     locals |-> [k \in CtxKeys |-> Unset],
     tenant |-> <<>>, tenantDB |-> NoConn,
     resolverCalls |-> 0, storeCalls |-> 0, storeArg |-> <<>>,
     callbackCalls |-> 0, handlerTenant |-> <<>>, handlerDB |-> NoConn,
     helperKey |-> "", mustPanic |-> FALSE, mustTenant |-> <<>>,
     mustDB |-> NoConn,
     resolverErr |-> NoErr, storeErr |-> NoErr, callbackErr |-> NoErr,
     errorHandlerCalls |-> 0, errArg |-> NoErr, nextCalls |-> 0]

EmptyMap == [k \in {} |-> NoConn]

Has(m, k) == k \in DOMAIN m

MapPut(m, k, v) == [x \in DOMAIN m \cup {k} |-> IF x = k THEN v ELSE m[x]]

MapDelete(m, k) == [x \in DOMAIN m \ {k} |-> m[x]]

\* Go's read of a missing key of a map[string]bool yields false.
MapGetBool(m, k) == IF k \in DOMAIN m THEN m[k] ELSE FALSE

Bump(f, k) == [f EXCEPT ![k] = @ + 1]

NoRet == [op |-> "none", key |-> EmptyKey, db |-> NoConn, err |-> NoErr,
          via |-> "none", ensures |-> 0, opens |-> 0, pinged |-> FALSE,
          probeFailed |-> FALSE, errs |-> {}, schemas |-> <<>>,
          ctxDone |-> FALSE]

\* What GetTenantDB(k) returned: (d, e), the return statement it left by
\* (via) and the collaborator calls it made on the way.
GetResult(k, d, e, v, ne, no, pg) ==
    [NoRet EXCEPT !.op = "Get", !.key = k, !.db = d, !.err = e, !.via = v,
                  !.ensures = ne, !.opens = no, !.pinged = pg]

\* What a call has done so far, and whether the ctx it was given has been
\* cancelled or has timed out.
NoneMade == [ensures |-> 0, opens |-> 0, ctxDone |-> FALSE]

\* A task returns: its locals die, the result is kept for the caller, who
\* knows whether the call's ctx was done by then.
Return(t, r) ==
    /\ pc' = [pc EXCEPT ![t] = "idle"]
    /\ key' = [key EXCEPT ![t] = EmptyKey]
    /\ db' = [db EXCEPT ![t] = NoConn]
    /\ snap' = [snap EXCEPT ![t] = EmptyMap]
    /\ made' = [made EXCEPT ![t] = NoneMade]
    /\ ret' = [ret EXCEPT ![t] = [r EXCEPT !.ctxDone = made[t].ctxDone]]

Goto(t, label) ==
    /\ pc' = [pc EXCEPT ![t] = label]
    /\ UNCHANGED <<key, db, snap, made, ret>>

\* A task starts a call with argument k.
Enter(t, label, k) ==
    /\ pc[t] = "idle"
    /\ calls < MaxCalls
    /\ calls' = calls + 1
    /\ pc' = [pc EXCEPT ![t] = label]
    /\ key' = [key EXCEPT ![t] = k]
    /\ ret' = [ret EXCEPT ![t] = NoRet]
    /\ UNCHANGED <<db, snap, made>>

\* A closed *sql.DB fails every later Exec / Ping ("sql: database is closed").
ConnClosed(c) == conns[c].closeCalls > 0

MasterClosed == masterDB.closeCalls > 0

\* The master connection as New leaves it, and the nil one of no store.
OpenMaster == [opened |-> TRUE, closeCalls |-> 0, closeFails |-> 0]

NilMaster == [opened |-> FALSE, closeCalls |-> 0, closeFails |-> 0]

NewConn(k) == [key |-> k, closeCalls |-> 0, closeFails |-> 0]

\* sqlDB.Close() was invoked on connection c and returned nil (ok) or an error.
CloseConn(cs, c, ok) ==
    [cs EXCEPT ![c].closeCalls = @ + 1,
               ![c].closeFails = IF ok THEN @ ELSE @ + 1]

\* Orders for a slice made with make([]string, len(m)) instead of
\* make([]string, 0, len(m)): the appended keys follow len(m) empty strings.
OrdersPrefilled(S) ==
    {[i \in 1..(2 * Cardinality(S)) |->
        IF i <= Cardinality(S) THEN EmptyKey ELSE s[i - Cardinality(S)]] :
     s \in {q \in [1..Cardinality(S) -> S] : \A x \in S : \E i \in DOMAIN q : q[i] = x}}

\* The orders in which ranging over a map can visit a set of keys.
Orders(S) == {s \in [1..Cardinality(S) -> S] : \A x \in S : \E i \in DOMAIN s : s[i] = x}

\* ------------------------------------------------------------------ New
Init ==
    /\ masterDB = OpenMaster
    /\ tenantDBs = EmptyMap
    /\ healthCheckDone = [k \in {} |-> FALSE]
    /\ muWriter = None
    /\ muReaders = {}
    /\ healthMu = None
    /\ autoMigrate \in BOOLEAN
    /\ conns = <<>>
    /\ timers = [k \in Keys |-> 0]
    /\ pc = [t \in Tasks |-> "idle"]
    /\ key = [t \in Tasks |-> EmptyKey]
    /\ db = [t \in Tasks |-> NoConn]
    /\ snap = [t \in Tasks |-> EmptyMap]
    /\ made = [t \in Tasks |-> NoneMade]
    /\ ret = [t \in Tasks |-> NoRet]
    /\ calls = 0
    /\ ensureCalls = [k \in Keys |-> 0]
    /\ openCalls = [k \in Keys |-> 0]
    /\ fails = [k \in Keys |-> [ensure |-> 0, open |-> 0, migrate |-> 0]]
    /\ removals = [k \in Keys |-> 0]
    /\ newRet = NewResult(FALSE, TRUE, NoErr)
    /\ req = NoReq
    /\ mw = NoMw

\* ------------------------------------------------------------------ New
\* New with the check of gorm.Open's error left out: a store comes back whose
\* master connection was never opened.
NewStoreIgnoresOpenError(cfgNil, masterOk, am) ==
    /\ \A t \in Tasks : pc[t] = "nostore"
    /\ IF cfgNil
         THEN /\ newRet' = NewResult(cfgNil, masterOk, "config")
              /\ UNCHANGED <<masterDB, tenantDBs, healthCheckDone, autoMigrate, pc>>
         ELSE /\ masterDB' = IF masterOk THEN OpenMaster ELSE NilMaster
              /\ tenantDBs' = EmptyMap
              /\ healthCheckDone' = [k \in {} |-> FALSE]
              /\ autoMigrate' = am
              /\ pc' = [t \in Tasks |-> "idle"]
              /\ newRet' = NewResult(cfgNil, masterOk, NoErr)
    /\ UNCHANGED <<muWriter, muReaders, healthMu, conns, timers, key, db, snap,
                   made, ret, calls, histVars, req, mw>>

\* New(config): a nil config and a master connection that gorm.Open cannot
\* open each return (nil, error); otherwise the store is returned with the
\* master connection and two empty maps. am is what the config says about
\* migration. A program whose New failed may call it again.
NewStore(cfgNil, masterOk, am) ==
    /\ \A t \in Tasks : pc[t] = "nostore"
    /\ IF cfgNil
         THEN /\ newRet' = NewResult(cfgNil, masterOk, "config")
              /\ UNCHANGED <<masterDB, tenantDBs, healthCheckDone, autoMigrate, pc>>
         ELSE IF ~masterOk
           THEN /\ newRet' = NewResult(cfgNil, masterOk, "master")
                /\ UNCHANGED <<masterDB, tenantDBs, healthCheckDone, autoMigrate, pc>>
           ELSE /\ masterDB' = OpenMaster
                /\ tenantDBs' = EmptyMap
                /\ healthCheckDone' = [k \in {} |-> FALSE]
                /\ autoMigrate' = am
                /\ pc' = [t \in Tasks |-> "idle"]
                /\ newRet' = NewResult(cfgNil, masterOk, NoErr)
    /\ UNCHANGED <<muWriter, muReaders, healthMu, conns, timers, key, db, snap,
                   made, ret, calls, histVars, req, mw>>

\* The state before New is called: no store, no master connection, and no
\* task can call a method.
InitNew ==
    /\ masterDB = NilMaster
    /\ tenantDBs = EmptyMap
    /\ healthCheckDone = [k \in {} |-> FALSE]
    /\ muWriter = None
    /\ muReaders = {}
    /\ healthMu = None
    /\ autoMigrate = FALSE
    /\ conns = <<>>
    /\ timers = [k \in Keys |-> 0]
    /\ pc = [t \in Tasks |-> "nostore"]
    /\ key = [t \in Tasks |-> EmptyKey]
    /\ db = [t \in Tasks |-> NoConn]
    /\ snap = [t \in Tasks |-> EmptyMap]
    /\ made = [t \in Tasks |-> NoneMade]
    /\ ret = [t \in Tasks |-> NoRet]
    /\ calls = 0
    /\ ensureCalls = [k \in Keys |-> 0]
    /\ openCalls = [k \in Keys |-> 0]
    /\ fails = [k \in Keys |-> [ensure |-> 0, open |-> 0, migrate |-> 0]]
    /\ removals = [k \in Keys |-> 0]
    /\ newRet = NotCalled
    /\ req = NoReq
    /\ mw = NoMw

\* ------------------------------------------------------------------ GetTenantDB
\* GetTenantDBCall without the check for the empty schema.
GetTenantDBCallNoEmptyCheck(t, k) ==
    /\ pc[t] = "idle"
    /\ calls < MaxCalls
    /\ calls' = calls + 1
    /\ pc' = [pc EXCEPT ![t] = "g_rlock"]
    /\ key' = [key EXCEPT ![t] = k]
    /\ ret' = [ret EXCEPT ![t] = NoRet]
    /\ UNCHANGED <<db, snap, made>>
    /\ UNCHANGED <<storeVars, lockVars, autoMigrate, histVars>>

\* A task starts a call of GetTenantDB(ctx, k); the empty schema is rejected
\* before any lock is touched.
GetTenantDBCall(t, k) ==
    /\ pc[t] = "idle"
    /\ calls < MaxCalls
    /\ calls' = calls + 1
    /\ IF k = EmptyKey
         THEN Return(t, GetResult(k, NoConn, "empty", "arg", 0, 0, FALSE))
         ELSE /\ pc' = [pc EXCEPT ![t] = "g_rlock"]
              /\ key' = [key EXCEPT ![t] = k]
              /\ ret' = [ret EXCEPT ![t] = NoRet]
              /\ UNCHANGED <<db, snap, made>>
    /\ UNCHANGED <<storeVars, lockVars, autoMigrate, histVars>>

\* GetRLock with the schema ensured before the lookup instead of after a miss.
GetRLockEnsuresFirst(t) ==
    /\ pc[t] = "g_rlock"
    /\ muWriter = None
    /\ muReaders' = muReaders \cup {t}
    /\ ensureCalls' = Bump(ensureCalls, key[t])
    /\ Goto(t, "g_read")
    /\ UNCHANGED <<storeVars, muWriter, healthMu, autoMigrate, calls, openCalls,
                   fails, removals>>

\* s.mu.RLock()
GetRLock(t) ==
    /\ pc[t] = "g_rlock"
    /\ muWriter = None
    /\ muReaders' = muReaders \cup {t}
    /\ Goto(t, "g_read")
    /\ UNCHANGED <<storeVars, muWriter, healthMu, autoMigrate, calls, histVars>>

\* GetRead without the RUnlock: the task goes on holding the read lock.
GetReadKeepsRLock(t) ==
    /\ pc[t] = "g_read"
    /\ muReaders' = muReaders
    /\ IF Has(tenantDBs, key[t])
         THEN /\ db' = [db EXCEPT ![t] = tenantDBs[key[t]]]
              /\ pc' = [pc EXCEPT ![t] = "hc_lock"]
         ELSE /\ db' = db
              /\ pc' = [pc EXCEPT ![t] = "g_wlock"]
    /\ UNCHANGED <<key, snap, made, ret>>
    /\ UNCHANGED <<storeVars, muWriter, healthMu, autoMigrate, calls, histVars>>

\* db, exists := s.tenantDBs[tenantSchema]; s.mu.RUnlock(); if exists {...}
GetRead(t) ==
    /\ pc[t] = "g_read"
    /\ muReaders' = muReaders \ {t}
    /\ IF Has(tenantDBs, key[t])
         THEN /\ db' = [db EXCEPT ![t] = tenantDBs[key[t]]]
              /\ pc' = [pc EXCEPT ![t] = "hc_lock"]
         ELSE /\ db' = db
              /\ pc' = [pc EXCEPT ![t] = "g_wlock"]
    /\ UNCHANGED <<key, snap, made, ret>>
    /\ UNCHANGED <<storeVars, muWriter, healthMu, autoMigrate, calls, histVars>>

\* GetWLock without the double check: the task constructs whether or not the
\* record appeared while it waited for the lock.
GetWLockNoDoubleCheck(t) ==
    /\ pc[t] = "g_wlock"
    /\ muWriter = None
    /\ muReaders = {}
    /\ muWriter' = t
    /\ pc' = [pc EXCEPT ![t] = "g_ensure"]
    /\ snap' = [snap EXCEPT ![t] = tenantDBs]
    /\ UNCHANGED <<key, db, made, ret>>
    /\ UNCHANGED <<storeVars, muReaders, healthMu, autoMigrate, calls, histVars>>

\* s.mu.Lock(); defer s.mu.Unlock(); double check after acquiring the lock:
\* a record that appeared in the meantime is returned without a health check.
GetWLock(t) ==
    /\ pc[t] = "g_wlock"
    /\ muWriter = None
    /\ muReaders = {}
    /\ IF Has(tenantDBs, key[t])
         THEN /\ Return(t, GetResult(key[t], tenantDBs[key[t]], NoErr,
                                      "doublecheck", made[t].ensures,
                                      made[t].opens, FALSE))
              /\ UNCHANGED muWriter
         ELSE /\ muWriter' = t
              /\ pc' = [pc EXCEPT ![t] = "g_ensure"]
              /\ snap' = [snap EXCEPT ![t] = tenantDBs]
              /\ UNCHANGED <<key, db, made, ret>>
    /\ UNCHANGED <<storeVars, muReaders, healthMu, autoMigrate, calls, histVars>>

\* ensureSchema: CREATE SCHEMA IF NOT EXISTS on the master connection with the
\* caller's ctx.  It fails on a closed master connection, and may fail anyway
\* (ctx cancelled, database error).
GetEnsure(t) ==
    /\ pc[t] = "g_ensure"
    /\ ensureCalls' = Bump(ensureCalls, key[t])
    /\ \E ok \in IF MasterClosed \/ made[t].ctxDone THEN {FALSE} ELSE BOOLEAN :
         IF ok
           THEN /\ pc' = [pc EXCEPT ![t] = "g_open"]
                /\ made' = [made EXCEPT ![t].ensures = @ + 1]
                /\ UNCHANGED <<key, db, snap, ret, muWriter, fails>>
           ELSE /\ Return(t, GetResult(key[t], NoConn, "ensure", "build",
                                        made[t].ensures + 1, made[t].opens, FALSE))
                /\ muWriter' = None
                /\ fails' = [fails EXCEPT ![key[t]].ensure = @ + 1]
    /\ UNCHANGED <<storeVars, muReaders, healthMu, autoMigrate, calls,
                   openCalls, removals>>

\* StoreConn storing the outer db variable (nil after the failed lookup)
\* instead of tenantDB.
StoreConnOuterDb(m, k, c) == MapPut(m, k, NoConn)

\* StoreConn assigning a fresh map that holds only the new record.
StoreConnFreshMap(m, k, c) == [x \in {k} |-> c]

\* s.tenantDBs[tenantSchema] = tenantDB
StoreConn(m, k, c) == MapPut(m, k, c)

\* s.healthCheckDone[tenantSchema] = false
StoreFlag(m, k) == MapPut(m, k, FALSE)

\* FailedConstruction with the record inserted before the step's error is
\* looked at.
FailedConstructionKeepsRecord(m, k, c) == MapPut(m, k, c)

\* What the map is after a construction step failed: the error return comes
\* before the store, so it is untouched.
FailedConstruction(m, k, c) == m

\* GetOpen with a retry loop around gorm.Open: a failed open is tried again
\* within the same call.
GetOpenRetries(t) ==
    /\ pc[t] = "g_open"
    /\ openCalls' = Bump(openCalls, key[t])
    /\ \E ok \in BOOLEAN :
         LET c == Len(conns) + 1 IN
         IF ~ok
           THEN /\ made' = [made EXCEPT ![t].opens = @ + 1]
                /\ fails' = [fails EXCEPT ![key[t]].open = @ + 1]
                /\ made[t].opens < MaxCalls
                /\ UNCHANGED <<pc, key, db, snap, ret, muWriter, tenantDBs,
                               conns, healthCheckDone>>
           ELSE /\ conns' = Append(conns, NewConn(key[t]))
                /\ fails' = fails
                /\ tenantDBs' = StoreConn(tenantDBs, key[t], c)
                /\ healthCheckDone' = MapPut(healthCheckDone, key[t], FALSE)
                /\ Return(t, GetResult(key[t], c, NoErr, "build",
                                        made[t].ensures,
                                        made[t].opens + 1, FALSE))
                /\ muWriter' = None
    /\ UNCHANGED <<masterDB, timers, muReaders, healthMu, autoMigrate, calls,
                   ensureCalls, removals>>

\* GetOpen storing the record as soon as the connection is open, before the
\* migration has run.
GetOpenStoresEarly(t) ==
    /\ pc[t] = "g_open"
    /\ openCalls' = Bump(openCalls, key[t])
    /\ \E ok \in BOOLEAN :
         LET c == Len(conns) + 1 IN
         IF ~ok
           THEN /\ Return(t, GetResult(key[t], NoConn, "open", "build",
                                        made[t].ensures, made[t].opens + 1, FALSE))
                /\ muWriter' = None
                /\ fails' = [fails EXCEPT ![key[t]].open = @ + 1]
                /\ tenantDBs' = FailedConstruction(tenantDBs, key[t], NoConn)
                /\ UNCHANGED <<conns, healthCheckDone>>
           ELSE /\ conns' = Append(conns, NewConn(key[t]))
                /\ fails' = fails
                /\ tenantDBs' = StoreConn(tenantDBs, key[t], c)
                /\ healthCheckDone' = StoreFlag(healthCheckDone, key[t])
                /\ IF autoMigrate
                     THEN /\ pc' = [pc EXCEPT ![t] = "g_migrate"]
                          /\ db' = [db EXCEPT ![t] = c]
                          /\ made' = [made EXCEPT ![t].opens = @ + 1]
                          /\ UNCHANGED <<key, snap, ret, muWriter>>
                     ELSE /\ Return(t, GetResult(key[t], c, NoErr, "build",
                                                  made[t].ensures,
                                                  made[t].opens + 1, FALSE))
                          /\ muWriter' = None
    /\ UNCHANGED <<masterDB, timers, muReaders, healthMu, autoMigrate, calls,
                   ensureCalls, removals>>

\* gorm.Open(postgres.Open(tenantDSN)): on success the new connection is
\* migrated when AutoMigrate is configured, otherwise stored at once.
GetOpen(t) ==
    /\ pc[t] = "g_open"
    /\ openCalls' = Bump(openCalls, key[t])
    /\ \E ok \in BOOLEAN :
         LET c == Len(conns) + 1 IN
         IF ~ok
           THEN /\ Return(t, GetResult(key[t], NoConn, "open", "build",
                                        made[t].ensures, made[t].opens + 1, FALSE))
                /\ muWriter' = None
                /\ fails' = [fails EXCEPT ![key[t]].open = @ + 1]
                /\ tenantDBs' = FailedConstruction(tenantDBs, key[t], NoConn)
                /\ UNCHANGED <<conns, healthCheckDone>>
           ELSE /\ conns' = Append(conns, NewConn(key[t]))
                /\ fails' = fails
                /\ IF autoMigrate
                     THEN /\ pc' = [pc EXCEPT ![t] = "g_migrate"]
                          /\ db' = [db EXCEPT ![t] = c]
                          /\ made' = [made EXCEPT ![t].opens = @ + 1]
                          /\ UNCHANGED <<key, snap, ret, muWriter, tenantDBs,
                                         healthCheckDone>>
                     ELSE /\ tenantDBs' = StoreConn(tenantDBs, key[t], c)
                          /\ healthCheckDone' = StoreFlag(healthCheckDone, key[t])
                          /\ Return(t, GetResult(key[t], c, NoErr, "build",
                                                  made[t].ensures,
                                                  made[t].opens + 1, FALSE))
                          /\ muWriter' = None
    /\ UNCHANGED <<masterDB, timers, muReaders, healthMu, autoMigrate, calls,
                   ensureCalls, removals>>

\* GetMigrate storing the record before it looks at the migration's error.
GetMigrateStoresFirst(t) ==
    /\ pc[t] = "g_migrate"
    /\ \E ok \in BOOLEAN :
         IF ok
           THEN /\ tenantDBs' = StoreConn(tenantDBs, key[t], db[t])
                /\ healthCheckDone' = StoreFlag(healthCheckDone, key[t])
                /\ Return(t, GetResult(key[t], db[t], NoErr, "build",
                                        made[t].ensures, made[t].opens, FALSE))
                /\ fails' = fails
           ELSE /\ tenantDBs' = StoreConn(tenantDBs, key[t], db[t])
                /\ healthCheckDone' = StoreFlag(healthCheckDone, key[t])
                /\ Return(t, GetResult(key[t], NoConn, "migrate", "build",
                                        made[t].ensures, made[t].opens, FALSE))
                /\ fails' = [fails EXCEPT ![key[t]].migrate = @ + 1]
    /\ muWriter' = None
    /\ UNCHANGED <<masterDB, conns, timers, muReaders, healthMu, autoMigrate,
                   calls, ensureCalls, openCalls, removals>>

\* tenantDB.AutoMigrate(s.config.Models...), then the record is stored.  A
\* failed migration returns without storing and without closing tenantDB.
GetMigrate(t) ==
    /\ pc[t] = "g_migrate"
    /\ \E ok \in BOOLEAN :
         IF ok
           THEN /\ tenantDBs' = StoreConn(tenantDBs, key[t], db[t])
                /\ healthCheckDone' = StoreFlag(healthCheckDone, key[t])
                /\ Return(t, GetResult(key[t], db[t], NoErr, "build",
                                        made[t].ensures, made[t].opens, FALSE))
                /\ fails' = fails
           ELSE /\ tenantDBs' = FailedConstruction(tenantDBs, key[t], db[t])
                /\ healthCheckDone' = healthCheckDone
                /\ Return(t, GetResult(key[t], NoConn, "migrate", "build",
                                        made[t].ensures, made[t].opens, FALSE))
                /\ fails' = [fails EXCEPT ![key[t]].migrate = @ + 1]
    /\ muWriter' = None
    /\ UNCHANGED <<masterDB, conns, timers, muReaders, healthMu, autoMigrate,
                   calls, ensureCalls, openCalls, removals>>


\* ------------------------------------------------------------------ healthCheckWithInterval
\* HealthLock without healthMu: the check of the flag and the ping run
\* unserialized.
HealthLockNoMutex(t) ==
    /\ pc[t] = "hc_lock"
    /\ IF MapGetBool(healthCheckDone, key[t])
         THEN /\ Return(t, GetResult(key[t], db[t], NoErr, "hit", made[t].ensures,
                                      made[t].opens, FALSE))
              /\ UNCHANGED healthMu
         ELSE /\ healthMu' = t
              /\ Goto(t, "hc_ping")
    /\ UNCHANGED <<storeVars, muWriter, muReaders, autoMigrate, calls, histVars>>

\* s.healthMu.Lock(); if s.healthCheckDone[tenantSchema] { return }: the
\* caller of GetTenantDB runs this itself, before its own return.
HealthLock(t) ==
    /\ pc[t] = "hc_lock"
    /\ healthMu = None
    /\ IF MapGetBool(healthCheckDone, key[t])
         THEN /\ Return(t, GetResult(key[t], db[t], NoErr, "hit", made[t].ensures,
                                      made[t].opens, FALSE))
              /\ UNCHANGED healthMu
         ELSE /\ healthMu' = t
              /\ Goto(t, "hc_ping")
    /\ UNCHANGED <<storeVars, muWriter, muReaders, autoMigrate, calls, histVars>>

\* HealthPing evicting the record of a connection whose ping failed.
HealthPingEvicts(t) ==
    /\ pc[t] = "hc_ping"
    /\ \E ok \in IF ConnClosed(db[t]) THEN {FALSE} ELSE BOOLEAN :
         IF ok
           THEN /\ healthCheckDone' = MapPut(healthCheckDone, key[t], TRUE)
                /\ timers' = Bump(timers, key[t])
                /\ tenantDBs' = tenantDBs
                /\ Return(t, GetResult(key[t], db[t], NoErr, "hit",
                                        made[t].ensures, made[t].opens, TRUE))
           ELSE /\ UNCHANGED <<healthCheckDone, timers>>
                /\ tenantDBs' = MapDelete(tenantDBs, key[t])
                /\ Return(t, [GetResult(key[t], db[t], NoErr, "hit",
                                         made[t].ensures, made[t].opens, TRUE)
                                 EXCEPT !.probeFailed = TRUE])
    /\ healthMu' = None
    /\ UNCHANGED <<masterDB, conns, muWriter, muReaders, autoMigrate,
                   calls, histVars>>

\* db.DB() and sqlDB.PingContext(ctx), holding healthMu.  On success the flag
\* is set and a goroutine is started that clears it after the interval; a
\* failure (closed connection, ctx cancelled, network) changes nothing.
HealthPing(t) ==
    /\ pc[t] = "hc_ping"
    /\ \E ok \in IF ConnClosed(db[t]) \/ made[t].ctxDone THEN {FALSE} ELSE BOOLEAN :
         IF ok
           THEN /\ healthCheckDone' = MapPut(healthCheckDone, key[t], TRUE)
                /\ timers' = Bump(timers, key[t])
                /\ Return(t, GetResult(key[t], db[t], NoErr, "hit",
                                        made[t].ensures, made[t].opens, TRUE))
           ELSE /\ UNCHANGED <<healthCheckDone, timers>>
                /\ Return(t, [GetResult(key[t], db[t], NoErr, "hit",
                                         made[t].ensures, made[t].opens, TRUE)
                                 EXCEPT !.probeFailed = TRUE])
    /\ healthMu' = None
    /\ UNCHANGED <<masterDB, tenantDBs, conns, muWriter, muReaders, autoMigrate,
                   calls, histVars>>

\* The reset goroutine dropping the record along with the flag.
HealthResetEvicts(k) ==
    /\ timers[k] > 0
    /\ healthMu = None
    /\ timers' = [timers EXCEPT ![k] = @ - 1]
    /\ healthCheckDone' = MapDelete(healthCheckDone, k)
    /\ tenantDBs' = MapDelete(tenantDBs, k)
    /\ UNCHANGED <<masterDB, conns, lockVars, autoMigrate, pc, key,
                   db, snap, made, ret, calls, histVars>>

\* The reset goroutine writing true again instead of false.
HealthResetKeepsFlag(k) ==
    /\ timers[k] > 0
    /\ healthMu = None
    /\ timers' = [timers EXCEPT ![k] = @ - 1]
    /\ healthCheckDone' = MapPut(healthCheckDone, k, TRUE)
    /\ UNCHANGED <<masterDB, tenantDBs, conns, lockVars, autoMigrate, pc, key,
                   db, snap, made, ret, calls, histVars>>

\* The reset goroutine: time.Sleep(interval); healthMu.Lock();
\* healthCheckDone[tenantSchema] = false; healthMu.Unlock().
HealthReset(k) ==
    /\ timers[k] > 0
    /\ healthMu = None
    /\ timers' = [timers EXCEPT ![k] = @ - 1]
    /\ healthCheckDone' = MapPut(healthCheckDone, k, FALSE)
    /\ UNCHANGED <<masterDB, tenantDBs, conns, lockVars, autoMigrate, pc, key,
                   db, snap, made, ret, calls, histVars>>

\* ------------------------------------------------------------------ RemoveTenantDB
RemoveTenantDBCall(t, k) ==
    /\ Enter(t, "r_lock", k)
    /\ UNCHANGED <<storeVars, lockVars, autoMigrate, histVars>>

\* RemoveLock reporting a key that is not cached as an error.
RemoveLockMissingIsError(t) ==
    /\ pc[t] = "r_lock"
    /\ muWriter = None
    /\ muReaders = {}
    /\ IF ~Has(tenantDBs, key[t])
         THEN /\ Return(t, [NoRet EXCEPT !.op = "Remove", !.key = key[t],
                                         !.err = "missing"])
              /\ UNCHANGED muWriter
         ELSE /\ muWriter' = t
              /\ pc' = [pc EXCEPT ![t] = "r_close"]
              /\ db' = [db EXCEPT ![t] = tenantDBs[key[t]]]
              /\ snap' = [snap EXCEPT ![t] = tenantDBs]
              /\ UNCHANGED <<key, made, ret>>
    /\ UNCHANGED <<storeVars, muReaders, healthMu, autoMigrate, calls, histVars>>

\* s.mu.Lock(); db, exists := s.tenantDBs[tenantSchema]; if !exists { return nil }
RemoveLock(t) ==
    /\ pc[t] = "r_lock"
    /\ muWriter = None
    /\ muReaders = {}
    /\ IF ~Has(tenantDBs, key[t])
         THEN /\ Return(t, [NoRet EXCEPT !.op = "Remove", !.key = key[t]])
              /\ UNCHANGED muWriter
         ELSE /\ muWriter' = t
              /\ pc' = [pc EXCEPT ![t] = "r_close"]
              /\ db' = [db EXCEPT ![t] = tenantDBs[key[t]]]
              /\ snap' = [snap EXCEPT ![t] = tenantDBs]
              /\ UNCHANGED <<key, made, ret>>
    /\ UNCHANGED <<storeVars, muReaders, healthMu, autoMigrate, calls, histVars>>

\* DropRecord with the delete left out.
DropRecordKeeps(m, k) == m

\* delete(s.tenantDBs, tenantSchema)
DropRecord(m, k) == MapDelete(m, k)

\* db.DB(), sqlDB.Close(), then the two deletes; either error returns early,
\* before the deletes.
RemoveClose(t) ==
    /\ pc[t] = "r_close"
    /\ \E outcome \in {"ok", "db", "close"} :
         /\ conns' = IF outcome = "db" THEN conns
                                      ELSE CloseConn(conns, db[t], outcome = "ok")
         /\ IF outcome = "ok"
              THEN /\ tenantDBs' = DropRecord(tenantDBs, key[t])
                   /\ healthCheckDone' = MapDelete(healthCheckDone, key[t])
                   /\ removals' = Bump(removals, key[t])
                   /\ Return(t, [NoRet EXCEPT !.op = "Remove", !.key = key[t],
                                              !.db = db[t]])
              ELSE /\ UNCHANGED <<tenantDBs, healthCheckDone, removals>>
                   /\ Return(t, [NoRet EXCEPT !.op = "Remove", !.key = key[t],
                                              !.db = db[t], !.err = outcome])
    /\ muWriter' = None
    /\ UNCHANGED <<masterDB, timers, muReaders, healthMu, autoMigrate, calls,
                   ensureCalls, openCalls, fails>>

\* ------------------------------------------------------------------ Close
CloseCall(t) ==
    /\ Enter(t, "c_lock", EmptyKey)
    /\ UNCHANGED <<storeVars, lockVars, autoMigrate, histVars>>

\* Close going through the map without taking mu.
CloseLockUnlocked(t) ==
    /\ pc[t] = "c_lock"
    /\ pc' = [pc EXCEPT ![t] = "c_close"]
    /\ snap' = [snap EXCEPT ![t] = tenantDBs]
    /\ UNCHANGED <<key, db, made, ret>>
    /\ UNCHANGED <<storeVars, lockVars, autoMigrate, calls, histVars>>

\* s.mu.Lock(); defer s.mu.Unlock()
CloseLock(t) ==
    /\ pc[t] = "c_lock"
    /\ muWriter = None
    /\ muReaders = {}
    /\ muWriter' = t
    /\ pc' = [pc EXCEPT ![t] = "c_close"]
    /\ snap' = [snap EXCEPT ![t] = tenantDBs]
    /\ UNCHANGED <<key, db, made, ret>>
    /\ UNCHANGED <<storeVars, muReaders, healthMu, autoMigrate, calls, histVars>>

\* The map as Close leaves it: the loop ranges over it and deletes nothing.
ClosedMap(m) == m

\* CloseAll returning at the first tenant connection that fails to close: the
\* master connection is then neither closed nor reported.
CloseAllStopsAtError(t) ==
    /\ pc[t] = "c_close"
    /\ \E dbErrs \in SUBSET DOMAIN tenantDBs :
       \E closeErrs \in SUBSET (DOMAIN tenantDBs \ dbErrs) :
       \E master \in {"ok", "db", "close"} :
         LET attempted == {tenantDBs[k] : k \in DOMAIN tenantDBs \ dbErrs}
             failed == {tenantDBs[k] : k \in closeErrs}
             stopped == dbErrs \cup closeErrs # {}
             errs == dbErrs \cup closeErrs
                       \cup (IF master = "ok" \/ stopped THEN {} ELSE {"master"})
         IN /\ conns' = [c \in DOMAIN conns |->
                           IF c \in attempted
                             THEN CloseConn(conns, c, c \notin failed)[c]
                             ELSE conns[c]]
            /\ masterDB' = IF master = "db" \/ stopped
                             THEN masterDB
                             ELSE [masterDB EXCEPT
                                     !.closeCalls = @ + 1,
                                     !.closeFails = IF master = "ok" THEN @ ELSE @ + 1]
            /\ Return(t, [NoRet EXCEPT !.op = "Close", !.errs = errs,
                            !.err = IF errs = {} THEN NoErr ELSE "close"])
    /\ tenantDBs' = tenantDBs
    /\ muWriter' = None
    /\ UNCHANGED <<healthCheckDone, timers, muReaders, healthMu, autoMigrate,
                   calls, histVars>>

\* The loop over s.tenantDBs and the close of the master connection: each
\* close may fail at db.DB() (no Close invoked) or at Close(); every failure
\* is appended to errs and the loop goes on.
CloseAll(t) ==
    /\ pc[t] = "c_close"
    /\ \E dbErrs \in SUBSET DOMAIN tenantDBs :
       \E closeErrs \in SUBSET (DOMAIN tenantDBs \ dbErrs) :
       \E master \in {"ok", "db", "close"} :
         LET attempted == {tenantDBs[k] : k \in DOMAIN tenantDBs \ dbErrs}
             failed == {tenantDBs[k] : k \in closeErrs}
             errs == dbErrs \cup closeErrs
                       \cup (IF master = "ok" THEN {} ELSE {"master"})
         IN /\ conns' = [c \in DOMAIN conns |->
                           IF c \in attempted
                             THEN CloseConn(conns, c, c \notin failed)[c]
                             ELSE conns[c]]
            /\ masterDB' = IF master = "db"
                             THEN masterDB
                             ELSE [masterDB EXCEPT
                                     !.closeCalls = @ + 1,
                                     !.closeFails = IF master = "ok" THEN @ ELSE @ + 1]
            /\ Return(t, [NoRet EXCEPT !.op = "Close", !.errs = errs,
                            !.err = IF errs = {} THEN NoErr ELSE "close"])
    /\ tenantDBs' = ClosedMap(tenantDBs)
    /\ muWriter' = None
    /\ UNCHANGED <<healthCheckDone, timers, muReaders, healthMu, autoMigrate,
                   calls, histVars>>

\* ------------------------------------------------------------------ GetAllTenantSchemas
GetAllCall(t) ==
    /\ Enter(t, "ga_rlock", EmptyKey)
    /\ UNCHANGED <<storeVars, lockVars, autoMigrate, histVars>>

\* s.mu.RLock(); defer s.mu.RUnlock()
GetAllRLock(t) ==
    /\ pc[t] = "ga_rlock"
    /\ muWriter = None
    /\ muReaders' = muReaders \cup {t}
    /\ Goto(t, "ga_read")
    /\ UNCHANGED <<storeVars, muWriter, healthMu, autoMigrate, calls, histVars>>

\* for schema := range s.tenantDBs { schemas = append(schemas, schema) }
GetAllRead(t) ==
    /\ pc[t] = "ga_read"
    /\ muReaders' = muReaders \ {t}
    /\ \E s \in Orders(DOMAIN tenantDBs) :
         Return(t, [NoRet EXCEPT !.op = "GetAll", !.schemas = s])
    /\ UNCHANGED <<storeVars, muWriter, healthMu, autoMigrate, calls, histVars>>

\* ------------------------------------------------------------------ specification
Next ==
    \/ \E t \in Tasks, k \in KeyArgs : GetTenantDBCall(t, k) /\ UNCHANGED glueVars
    \/ \E t \in Tasks : GetRLock(t) /\ UNCHANGED glueVars
    \/ \E t \in Tasks : GetRead(t) /\ UNCHANGED glueVars
    \/ \E t \in Tasks : GetWLock(t) /\ UNCHANGED glueVars
    \/ \E t \in Tasks : GetEnsure(t) /\ UNCHANGED glueVars
    \/ \E t \in Tasks : GetOpen(t) /\ UNCHANGED glueVars
    \/ \E t \in Tasks : GetMigrate(t) /\ UNCHANGED glueVars
    \/ \E t \in Tasks : HealthLock(t) /\ UNCHANGED glueVars
    \/ \E t \in Tasks : HealthPing(t) /\ UNCHANGED glueVars
    \/ \E k \in Keys : HealthReset(k) /\ UNCHANGED glueVars
    \/ \E t \in Tasks, k \in Keys : RemoveTenantDBCall(t, k) /\ UNCHANGED glueVars
    \/ \E t \in Tasks : RemoveLock(t) /\ UNCHANGED glueVars
    \/ \E t \in Tasks : RemoveClose(t) /\ UNCHANGED glueVars
    \/ \E t \in Tasks : CloseCall(t) /\ UNCHANGED glueVars
    \/ \E t \in Tasks : CloseLock(t) /\ UNCHANGED glueVars
    \/ \E t \in Tasks : CloseAll(t) /\ UNCHANGED glueVars
    \/ \E t \in Tasks : GetAllCall(t) /\ UNCHANGED glueVars
    \/ \E t \in Tasks : GetAllRLock(t) /\ UNCHANGED glueVars
    \/ \E t \in Tasks : GetAllRead(t) /\ UNCHANGED glueVars

Spec == Init /\ [][Next]_vars

\* The store from before its construction on.
NextNew ==
    \/ \E cfgNil, masterOk, am \in BOOLEAN : NewStore(cfgNil, masterOk, am)
    \/ Next

SpecNew == InitNew /\ [][NextNew]_vars

\* The store after task 1 called GetTenantDB(ctx, "a") twice: the first call
\* built the connection, the second found it and its ping succeeded, so the
\* flag of "a" is set and the goroutine that will clear it is sleeping.
WarmStore ==
    /\ masterDB = OpenMaster
    /\ tenantDBs = MapPut(EmptyMap, "a", 1)
    /\ healthCheckDone = [k \in {"a"} |-> TRUE]
    /\ muWriter = None
    /\ muReaders = {}
    /\ healthMu = None
    /\ autoMigrate \in BOOLEAN
    /\ conns = <<NewConn("a")>>
    /\ timers = [k \in Keys |-> IF k = "a" THEN 1 ELSE 0]
    /\ pc = [t \in Tasks |-> "idle"]
    /\ key = [t \in Tasks |-> EmptyKey]
    /\ db = [t \in Tasks |-> NoConn]
    /\ snap = [t \in Tasks |-> EmptyMap]
    /\ made = [t \in Tasks |-> NoneMade]
    /\ ret = [t \in Tasks |->
                IF t = 1 THEN GetResult("a", 1, NoErr, "hit", 0, 0, TRUE) ELSE NoRet]
    /\ ensureCalls = [k \in Keys |-> IF k = "a" THEN 1 ELSE 0]
    /\ openCalls = [k \in Keys |-> IF k = "a" THEN 1 ELSE 0]
    /\ fails = [k \in Keys |-> [ensure |-> 0, open |-> 0, migrate |-> 0]]
    /\ removals = [k \in Keys |-> 0]

\* WarmStore is a state of Spec after two calls: TLC refutes this invariant.
WarmStoreUnreached == ~(WarmStore /\ calls = 2)

\* The calls that follow those two; calls counts them from here.
InitWarm ==
    /\ WarmStore
    /\ calls = 0
    /\ newRet = NewResult(FALSE, TRUE, NoErr)
    /\ req = NoReq
    /\ mw = NoMw

SpecWarm == InitWarm /\ [][Next]_vars

\* The ctx of the GetTenantDB call that task t is in is cancelled or times
\* out; ensureSchema's Exec and the ping's PingContext are the two places
\* that read it.
CancelCtx(t) ==
    /\ pc[t] \in {"g_rlock", "g_read", "g_wlock", "g_ensure", "g_open",
                  "g_migrate", "hc_lock", "hc_ping"}
    /\ ~made[t].ctxDone
    /\ made' = [made EXCEPT ![t].ctxDone = TRUE]
    /\ UNCHANGED <<storeVars, lockVars, autoMigrate, pc, key, db, snap, ret,
                   calls, histVars>>

\* GetTenantDB calls whose ctx may be cancelled at any point.
NextCtx ==
    \/ \E t \in Tasks, k \in KeyArgs : GetTenantDBCall(t, k) /\ UNCHANGED glueVars
    \/ \E t \in Tasks : GetRLock(t) /\ UNCHANGED glueVars
    \/ \E t \in Tasks : GetRead(t) /\ UNCHANGED glueVars
    \/ \E t \in Tasks : GetWLock(t) /\ UNCHANGED glueVars
    \/ \E t \in Tasks : GetEnsure(t) /\ UNCHANGED glueVars
    \/ \E t \in Tasks : GetOpen(t) /\ UNCHANGED glueVars
    \/ \E t \in Tasks : GetMigrate(t) /\ UNCHANGED glueVars
    \/ \E t \in Tasks : HealthLock(t) /\ UNCHANGED glueVars
    \/ \E t \in Tasks : HealthPing(t) /\ UNCHANGED glueVars
    \/ \E k \in Keys : HealthReset(k) /\ UNCHANGED glueVars
    \/ \E t \in Tasks : CancelCtx(t) /\ UNCHANGED glueVars

SpecCtx == Init /\ [][NextCtx]_vars

\* What the Go scheduler and sync.Mutex guarantee to the health check: a
\* goroutine that holds healthMu for its ping goes on to release it, and a
\* reset goroutine whose sleep is over gets healthMu once it stays free.
HealthFairness ==
    /\ \A t \in Tasks : WF_vars(HealthPing(t) /\ UNCHANGED glueVars)
    /\ \A k \in Keys : WF_vars(HealthReset(k) /\ UNCHANGED glueVars)

\* The calls that touch the health check of a record: GetTenantDB, the reset
\* goroutines, and RemoveTenantDB, which deletes the flag.
NextLive ==
    \/ \E t \in Tasks, k \in KeyArgs : GetTenantDBCall(t, k) /\ UNCHANGED glueVars
    \/ \E t \in Tasks : GetRLock(t) /\ UNCHANGED glueVars
    \/ \E t \in Tasks : GetRead(t) /\ UNCHANGED glueVars
    \/ \E t \in Tasks : GetWLock(t) /\ UNCHANGED glueVars
    \/ \E t \in Tasks : GetEnsure(t) /\ UNCHANGED glueVars
    \/ \E t \in Tasks : GetOpen(t) /\ UNCHANGED glueVars
    \/ \E t \in Tasks : GetMigrate(t) /\ UNCHANGED glueVars
    \/ \E t \in Tasks : HealthLock(t) /\ UNCHANGED glueVars
    \/ \E t \in Tasks : HealthPing(t) /\ UNCHANGED glueVars
    \/ \E k \in Keys : HealthReset(k) /\ UNCHANGED glueVars
    \/ \E t \in Tasks, k \in Keys : RemoveTenantDBCall(t, k) /\ UNCHANGED glueVars
    \/ \E t \in Tasks : RemoveLock(t) /\ UNCHANGED glueVars
    \/ \E t \in Tasks : RemoveClose(t) /\ UNCHANGED glueVars

SpecLive == Init /\ [][NextLive]_vars /\ HealthFairness

\* The next statement of the call task t is in, whichever call that is.
TaskStep(t) ==
    \/ GetRLock(t) \/ GetRead(t) \/ GetWLock(t) \/ GetEnsure(t) \/ GetOpen(t)
    \/ GetMigrate(t) \/ HealthLock(t) \/ HealthPing(t)
    \/ RemoveLock(t) \/ RemoveClose(t)
    \/ CloseLock(t) \/ CloseAll(t)
    \/ GetAllRLock(t) \/ GetAllRead(t)

\* Every collaborator call returns and the Go scheduler runs every runnable
\* goroutine: a call whose next statement stays possible executes it, a
\* Lock or RLock that stays grantable is granted, and a reset goroutine whose
\* sleep is over gets healthMu once it stays free.
Scheduling ==
    /\ \A t \in Tasks : WF_vars(TaskStep(t) /\ UNCHANGED glueVars)
    /\ \A k \in Keys : WF_vars(HealthReset(k) /\ UNCHANGED glueVars)

SpecTerm == Init /\ [][Next]_vars /\ Scheduling

\* ------------------------------------------------------------------ resolvers
\* A string is a sequence over this alphabet: four words, each standing for
\* its letters, and the two separators the resolver looks for. No word is a
\* concatenation of others, so two sequences are equal exactly when the
\* strings they spell are.
Alphabet == {"acme", "www", "api", "localhost", ".", ":"}

Hosts == UNION {[1..n -> Alphabet] : n \in 0..MaxHostLen}

\* fiber.StatusBadRequest
StatusBadRequest == 400

\* (tenant, nil)
Resolved(t) == [tenant |-> t, err |-> NoErr, status |-> 0]

\* ("", fiber.NewError(fiber.StatusBadRequest, msg))
BadRequest(msg) == [tenant |-> <<>>, err |-> msg, status |-> StatusBadRequest]

\* strings.Index(s, x) for a one-character x, counting positions from 1, and
\* 0 where Go returns -1.
Index(s, x) ==
    IF \E i \in DOMAIN s : s[i] = x
      THEN CHOOSE i \in DOMAIN s : s[i] = x /\ \A j \in 1..(i - 1) : s[j] # x
      ELSE 0

\* if idx := strings.Index(host, ":"); idx != -1 { host = host[:idx] }
StripPort(host) ==
    IF Index(host, ":") # 0 THEN SubSeq(host, 1, Index(host, ":") - 1) ELSE host

\* strings.Split(s, "."): the pieces between the dots, empty pieces included;
\* a string without a dot is its own single piece.
RECURSIVE Split(_)
Split(s) ==
    IF Index(s, ".") = 0
      THEN <<s>>
      ELSE <<SubSeq(s, 1, Index(s, ".") - 1)>>
             \o Split(SubSeq(s, Index(s, ".") + 1, Len(s)))

\* SubdomainResolver accepting every host of two parts.
SubdomainResolverAnyTwoParts(host) ==
    LET parts == Split(StripPort(host))
    IN IF Len(parts) >= 2
         THEN IF parts[1] \in {<<"www">>, <<"api">>, <<"localhost">>}
                THEN BadRequest("No valid tenant subdomain found")
                ELSE Resolved(parts[1])
         ELSE BadRequest("No valid tenant subdomain found")

\* SubdomainResolver, as a function of c.Hostname().
SubdomainResolver(host) ==
    LET parts == Split(StripPort(host))
    IN IF Len(parts) >= 2
         THEN IF parts[1] \in {<<"www">>, <<"api">>, <<"localhost">>}
                THEN BadRequest("No valid tenant subdomain found")
                ELSE IF Len(parts) = 2 /\ parts[2] # <<"localhost">>
                  THEN BadRequest("No valid tenant subdomain found")
                  ELSE Resolved(parts[1])
         ELSE BadRequest("No valid tenant subdomain found")

\* What one resolver of a chain returns for the request: any tenant, empty or
\* not, with a nil or a non-nil error.
Outcomes ==
    {[tenant |-> t, err |-> e] :
       t \in {<<>>, <<"acme">>, <<"api">>}, e \in {NoErr, "failed"}}

Chains == UNION {[1..n -> Outcomes] : n \in 0..MaxChain}

\* The loop of ChainResolvers accepting the first nil error, whatever the tenant.
RECURSIVE ChainFromNilErrOnly(_, _)
ChainFromNilErrOnly(results, i) ==
    IF i > Len(results)
      THEN [out |-> BadRequest("No tenant found using any resolver"),
            consulted |-> Len(results)]
      ELSE IF results[i].err = NoErr
        THEN [out |-> Resolved(results[i].tenant), consulted |-> i]
        ELSE ChainFromNilErrOnly(results, i + 1)

ChainResolversNilErrOnly(results) == ChainFromNilErrOnly(results, 1)

\* The loop of ChainResolvers from the i-th resolver on; results[i] is what
\* the i-th resolver returns when it is called. consulted is the number of
\* resolvers that were called.
RECURSIVE ChainFrom(_, _)
ChainFrom(results, i) ==
    IF i > Len(results)
      THEN [out |-> BadRequest("No tenant found using any resolver"),
            consulted |-> Len(results)]
      ELSE IF results[i].err = NoErr /\ results[i].tenant # <<>>
        THEN [out |-> Resolved(results[i].tenant), consulted |-> i]
        ELSE ChainFrom(results, i + 1)

\* ChainResolvers(resolvers...)(c)
ChainResolvers(results) == ChainFrom(results, 1)

\* What c.Get(headerName) and c.Query(paramName) return: "" for a header or
\* parameter the request does not have, else its value.
Values == {<<>>, <<"acme">>, <<"www">>, <<"acme", "www">>}

\* c.Path(): strings of these words and of slashes.
PathAlphabet == {"acme", "users", "/"}

Paths == UNION {[1..n -> PathAlphabet] : n \in 0..MaxPathLen}

\* strings.TrimPrefix(path, "/"): one leading slash is removed.
TrimSlash(path) ==
    IF Len(path) > 0 /\ path[1] = "/" THEN SubSeq(path, 2, Len(path)) ELSE path

\* strings.Split(s, "/")[0]: s up to its first slash, all of s without one.
FirstSegment(s) ==
    IF Index(s, "/") = 0 THEN s ELSE SubSeq(s, 1, Index(s, "/") - 1)

\* HeaderResolver(headerName), as a function of c.Get(headerName).
HeaderResolver(tenant) ==
    IF tenant = <<>> THEN BadRequest("Tenant header not found")
                     ELSE Resolved(tenant)

\* PathPrefixResolver, as a function of c.Path(); strings.Split never
\* returns an empty slice, so len(parts) > 0 always holds.
PathPrefixResolver(path) ==
    LET first == FirstSegment(TrimSlash(path))
    IN IF first # <<>> THEN Resolved(first)
                       ELSE BadRequest("No tenant found in path")

\* QueryParamResolver(paramName), as a function of c.Query(paramName).
QueryParamResolver(tenant) ==
    IF tenant = <<>> THEN BadRequest("Tenant query parameter not found")
                     ELSE Resolved(tenant)

\* Requests on which HeaderResolver, QueryParamResolver and
\* PathPrefixResolver are about to run.
HeaderReq(v) == [NoReq EXCEPT !.op = "get", !.value = v]

QueryReq(v) == [NoReq EXCEPT !.op = "param", !.value = v]

PathReq(p) == [NoReq EXCEPT !.op = "url", !.path = p]

HeaderResolve ==
    /\ req.op = "get"
    /\ req' = [req EXCEPT !.op = "header",
                          !.tenant = HeaderResolver(req.value).tenant,
                          !.err = HeaderResolver(req.value).err,
                          !.status = HeaderResolver(req.value).status]
    /\ UNCHANGED <<tenantStoreVars, newRet, mw>>

QueryParamResolve ==
    /\ req.op = "param"
    /\ req' = [req EXCEPT !.op = "query",
                          !.tenant = QueryParamResolver(req.value).tenant,
                          !.err = QueryParamResolver(req.value).err,
                          !.status = QueryParamResolver(req.value).status]
    /\ UNCHANGED <<tenantStoreVars, newRet, mw>>

PathPrefixResolve ==
    /\ req.op = "url"
    /\ req' = [req EXCEPT !.op = "path",
                          !.tenant = PathPrefixResolver(req.path).tenant,
                          !.err = PathPrefixResolver(req.path).err,
                          !.status = PathPrefixResolver(req.path).status]
    /\ UNCHANGED <<tenantStoreVars, newRet, mw>>

\* A request with hostname h on which SubdomainResolver is about to run.
HostReq(h) == [NoReq EXCEPT !.op = "host", !.host = h]

\* A request on which a chain of resolvers with these outcomes is about to run.
ChainReq(rs) == [NoReq EXCEPT !.op = "chain", !.results = rs]

SubdomainResolve ==
    /\ req.op = "host"
    /\ req' = [req EXCEPT !.op = "subdomain",
                          !.tenant = SubdomainResolver(req.host).tenant,
                          !.err = SubdomainResolver(req.host).err,
                          !.status = SubdomainResolver(req.host).status]
    /\ UNCHANGED <<tenantStoreVars, newRet, mw>>

ChainResolve ==
    /\ req.op = "chain"
    /\ req' = [req EXCEPT !.op = "chained",
                          !.tenant = ChainResolvers(req.results).out.tenant,
                          !.err = ChainResolvers(req.results).out.err,
                          !.status = ChainResolvers(req.results).out.status,
                          !.consulted = ChainResolvers(req.results).consulted]
    /\ UNCHANGED <<tenantStoreVars, newRet, mw>>

\* A constructed store that no task is using.
QuietStore ==
    /\ masterDB = OpenMaster
    /\ tenantDBs = EmptyMap
    /\ healthCheckDone = [k \in {} |-> FALSE]
    /\ muWriter = None
    /\ muReaders = {}
    /\ healthMu = None
    /\ autoMigrate = FALSE
    /\ conns = <<>>
    /\ timers = [k \in Keys |-> 0]
    /\ pc = [t \in Tasks |-> "idle"]
    /\ key = [t \in Tasks |-> EmptyKey]
    /\ db = [t \in Tasks |-> NoConn]
    /\ snap = [t \in Tasks |-> EmptyMap]
    /\ made = [t \in Tasks |-> NoneMade]
    /\ ret = [t \in Tasks |-> NoRet]
    /\ calls = 0
    /\ ensureCalls = [k \in Keys |-> 0]
    /\ openCalls = [k \in Keys |-> 0]
    /\ fails = [k \in Keys |-> [ensure |-> 0, open |-> 0, migrate |-> 0]]
    /\ removals = [k \in Keys |-> 0]
    /\ newRet = NewResult(FALSE, TRUE, NoErr)

InitResolve ==
    /\ QuietStore
    /\ req \in {HostReq(h) : h \in Hosts} \cup {ChainReq(rs) : rs \in Chains}
                \cup {HeaderReq(v) : v \in Values} \cup {QueryReq(v) : v \in Values}
                \cup {PathReq(p) : p \in Paths}
    /\ mw = NoMw

NextResolve ==
    \/ SubdomainResolve
    \/ ChainResolve
    \/ HeaderResolve
    \/ QueryParamResolve
    \/ PathPrefixResolve

SpecResolve == InitResolve /\ [][NextResolve]_vars

\* ------------------------------------------------------------------ middleware
\* ConfigDefault.ContextKey / ConfigDefault.DBContextKey
DefaultContextKey == "tenant"

DefaultDBContextKey == "tenant_db"

\* What Store.GetTenantDB(ctx, tenant) returns: the interface promises
\* nothing about the connection, so any handle or nil, with any error.
DBHandles == {1, 2}

StoreOutcomes ==
    {[db |-> d, err |-> e] :
       d \in DBHandles \cup {NoConn}, e \in {NoErr, "store failed"}}

\* return cfg.ErrorHandler(c, err)
ErrorHandlerCall(m, e) ==
    [m EXCEPT !.pc = "error", !.errorHandlerCalls = @ + 1, !.errArg = e]

\* return c.Next()
CallNext(m) == [m EXCEPT !.pc = "next", !.nextCalls = @ + 1]

\* GetTenant(c, contextKey): the string under the key, "" if there is none or
\* what is there is not a string; an empty contextKey means the default key.
GetTenant(locals, contextKey) ==
    LET k == IF contextKey # "" THEN contextKey ELSE "tenant"
    IN IF locals[k].kind = "string" THEN locals[k].str ELSE <<>>

\* GetTenantDB(c, contextKey): the *gorm.DB under the key, nil if there is
\* none or what is there is not a *gorm.DB.
GetTenantDB(locals, contextKey) ==
    LET k == IF contextKey # "" THEN contextKey ELSE "tenant_db"
    IN IF locals[k].kind = "db" THEN locals[k].db ELSE NoConn

\* The arguments of New: none, or one Config with each field set or left at
\* its zero value.
Configs ==
    {NoConfig} \cup
    {[given |-> TRUE,
      cfg |-> [Resolver |-> r, ContextKey |-> ck, DBContextKey |-> dk,
               ErrorHandler |-> e, Store |-> st, Skip |-> sk,
               OnTenantResolved |-> cb]] :
       r \in {"nil", "custom"}, ck \in CtxKeys, dk \in CtxKeys,
       e \in {"nil", "custom"}, st \in {"nil", "store"},
       sk \in BOOLEAN, cb \in BOOLEAN}

\* The configuration with a caller's Resolver always replaced by the default.
EffectiveConfigDropsResolver(a) ==
    IF ~a.given THEN ConfigDefault
    ELSE [a.cfg EXCEPT
            !.Resolver = ConfigDefault.Resolver,
            !.ContextKey = IF @ = "" THEN DefaultContextKey ELSE @,
            !.DBContextKey = IF @ = "" THEN DefaultDBContextKey ELSE @,
            !.ErrorHandler = IF @ = "nil" THEN ConfigDefault.ErrorHandler ELSE @]

\* New, up to the validation: cfg := ConfigDefault, replaced by config[0] if
\* there is one, whose unset optional fields then get their defaults.
EffectiveConfig(a) ==
    IF ~a.given THEN ConfigDefault
    ELSE [a.cfg EXCEPT
            !.Resolver = IF @ = "nil" THEN ConfigDefault.Resolver ELSE @,
            !.ContextKey = IF @ = "" THEN DefaultContextKey ELSE @,
            !.DBContextKey = IF @ = "" THEN DefaultDBContextKey ELSE @,
            !.ErrorHandler = IF @ = "nil" THEN ConfigDefault.ErrorHandler ELSE @]

\* New(config...): a nil Store in the effective configuration panics, else
\* the handler is returned with that configuration.
MwNew(a) ==
    /\ mw.pc = "none"
    /\ LET cfg == EffectiveConfig(a)
       IN mw' = IF cfg.Store = "nil"
                  THEN [mw EXCEPT !.pc = "panic", !.arg = a]
                  ELSE [mw EXCEPT
                          !.pc = "handler",
                          !.arg = a,
                          !.Resolver = cfg.Resolver,
                          !.ErrorHandler = cfg.ErrorHandler,
                          !.Store = cfg.Store,
                          !.ContextKey = cfg.ContextKey,
                          !.DBContextKey = cfg.DBContextKey,
                          !.hasSkip = cfg.Skip,
                          !.hasCallback = cfg.OnTenantResolved]
    /\ UNCHANGED <<tenantStoreVars, newRet, req>>

\* The handler with the Skip test left out.
HandlerSkipIgnored(skip) ==
    /\ mw.pc = "handler"
    /\ mw' = IF mw.hasSkip
               THEN [mw EXCEPT !.pc = "resolve",
                               !.skipRet = IF skip THEN "true" ELSE "false"]
               ELSE [mw EXCEPT !.pc = "resolve"]
    /\ UNCHANGED <<tenantStoreVars, newRet, req>>

\* A request enters the handler: if cfg.Skip != nil && cfg.Skip(c), c.Next()
\* is called at once.
HandlerSkip(skip) ==
    /\ mw.pc = "handler"
    /\ mw' = IF mw.hasSkip
               THEN IF skip
                      THEN CallNext([mw EXCEPT !.skipRet = "true"])
                      ELSE [mw EXCEPT !.pc = "resolve", !.skipRet = "false"]
               ELSE [mw EXCEPT !.pc = "resolve"]
    /\ UNCHANGED <<tenantStoreVars, newRet, req>>

\* tenant, err := cfg.Resolver(c); on an error the ErrorHandler answers, else
\* c.Locals(cfg.ContextKey, tenant).
HandlerResolve(o) ==
    /\ mw.pc = "resolve"
    /\ mw' = IF o.err # NoErr
               THEN ErrorHandlerCall([mw EXCEPT !.resolverCalls = @ + 1,
                                                !.resolverErr = o.err], o.err)
               ELSE [mw EXCEPT !.pc = "store",
                               !.resolverCalls = @ + 1,
                               !.tenant = o.tenant,
                               !.locals[mw.ContextKey] = StringValue(o.tenant)]
    /\ UNCHANGED <<tenantStoreVars, newRet, req>>

\* The handler putting the connection under cfg.ContextKey.
HandlerStoreWrongKey(so) ==
    /\ mw.pc = "store"
    /\ mw' = IF so.err # NoErr
               THEN ErrorHandlerCall([mw EXCEPT !.storeCalls = @ + 1,
                                                !.storeArg = mw.tenant,
                                                !.storeErr = so.err], so.err)
               ELSE LET stored == [mw EXCEPT !.pc = "callback",
                                             !.storeCalls = @ + 1,
                                             !.storeArg = mw.tenant,
                                             !.tenantDB = so.db,
                                             !.locals[mw.ContextKey] = DBValue(so.db)]
                    IN IF mw.hasCallback THEN stored ELSE CallNext(stored)
    /\ UNCHANGED <<tenantStoreVars, newRet, req>>

\* tenantDB, err := cfg.Store.GetTenantDB(c.Context(), tenant); on an error
\* the ErrorHandler answers, else c.Locals(cfg.DBContextKey, tenantDB), and
\* c.Next() if there is no callback.
HandlerStore(so) ==
    /\ mw.pc = "store"
    /\ mw' = IF so.err # NoErr
               THEN ErrorHandlerCall([mw EXCEPT !.storeCalls = @ + 1,
                                                !.storeArg = mw.tenant,
                                                !.storeErr = so.err], so.err)
               ELSE LET stored == [mw EXCEPT !.pc = "callback",
                                             !.storeCalls = @ + 1,
                                             !.storeArg = mw.tenant,
                                             !.tenantDB = so.db,
                                             !.locals[mw.DBContextKey] = DBValue(so.db)]
                    IN IF mw.hasCallback THEN stored ELSE CallNext(stored)
    /\ UNCHANGED <<tenantStoreVars, newRet, req>>

\* The handler going on to c.Next() whatever OnTenantResolved returned.
HandlerCallbackIgnoresError(ok) ==
    /\ mw.pc = "callback"
    /\ mw' = IF ok
               THEN CallNext([mw EXCEPT !.callbackCalls = @ + 1])
               ELSE CallNext([mw EXCEPT !.callbackCalls = @ + 1,
                                        !.callbackErr = "callback failed"])
    /\ UNCHANGED <<tenantStoreVars, newRet, req>>

\* cfg.OnTenantResolved(c, tenant): on an error the ErrorHandler answers,
\* else c.Next().
HandlerCallback(ok) ==
    /\ mw.pc = "callback"
    /\ mw' = IF ok
               THEN CallNext([mw EXCEPT !.callbackCalls = @ + 1])
               ELSE ErrorHandlerCall([mw EXCEPT !.callbackCalls = @ + 1,
                                                !.callbackErr = "callback failed"],
                                     "callback failed")
    /\ UNCHANGED <<tenantStoreVars, newRet, req>>

\* The next handler, reading GetTenant and GetTenantDB with the configured
\* keys.
NextHandler ==
    /\ mw.pc = "next"
    /\ mw' = [mw EXCEPT !.pc = "done",
                        !.handlerTenant = GetTenant(mw.locals, mw.ContextKey),
                        !.handlerDB = GetTenantDB(mw.locals, mw.DBContextKey)]
    /\ UNCHANGED <<tenantStoreVars, newRet, req>>

\* MustGetTenant returning whatever string is stored, empty or not.
MustGetTenantPanicsOnMissingOnly(locals, contextKey) ==
    LET k == IF contextKey # "" THEN contextKey ELSE "tenant"
    IN [panic |-> locals[k].kind # "string", tenant |-> GetTenant(locals, contextKey)]

\* MustGetTenant(c, contextKey): GetTenant's value, or a panic if it is "".
MustGetTenant(locals, contextKey) ==
    [panic |-> GetTenant(locals, contextKey) = <<>>,
     tenant |-> GetTenant(locals, contextKey)]

\* MustGetTenantDB(c, contextKey): GetTenantDB's value, or a panic if it is nil.
MustGetTenantDB(locals, contextKey) ==
    [panic |-> GetTenantDB(locals, contextKey) = NoConn,
     db |-> GetTenantDB(locals, contextKey)]

\* What a request context may hold under a key when a handler runs.
LocalValues ==
    {Unset, StringValue(<<>>), StringValue(<<"acme">>), DBValue(NoConn), DBValue(1)}

\* A handler calls MustGetTenant(c, helperKey) on its context.
MustGetTenantCall ==
    /\ mw.pc = "helpers"
    /\ mw' = [mw EXCEPT !.pc = "mustTenant",
                        !.mustPanic = MustGetTenant(mw.locals, mw.helperKey).panic,
                        !.mustTenant = MustGetTenant(mw.locals, mw.helperKey).tenant]
    /\ UNCHANGED <<tenantStoreVars, newRet, req>>

\* A handler calls MustGetTenantDB(c, helperKey) on its context.
MustGetTenantDBCall ==
    /\ mw.pc = "helpers"
    /\ mw' = [mw EXCEPT !.pc = "mustDB",
                        !.mustPanic = MustGetTenantDB(mw.locals, mw.helperKey).panic,
                        !.mustDB = MustGetTenantDB(mw.locals, mw.helperKey).db]
    /\ UNCHANGED <<tenantStoreVars, newRet, req>>

\* Any request context, and any key passed to the helpers ("" for none).
InitHelpers ==
    /\ QuietStore
    /\ req = NoReq
    /\ mw \in {[NoMw EXCEPT !.pc = "helpers", !.locals = l, !.helperKey = k] :
                 l \in [CtxKeys -> LocalValues], k \in CtxKeys}

NextHelpers == MustGetTenantCall \/ MustGetTenantDBCall

SpecHelpers == InitHelpers /\ [][NextHelpers]_vars

InitMw ==
    /\ QuietStore
    /\ req = NoReq
    /\ mw = NoMw

NextMw ==
    \/ \E a \in Configs : MwNew(a)
    \/ \E skip \in BOOLEAN : HandlerSkip(skip)
    \/ \E o \in Outcomes : HandlerResolve(o)
    \/ \E so \in StoreOutcomes : HandlerStore(so)
    \/ \E ok \in BOOLEAN : HandlerCallback(ok)
    \/ NextHandler

SpecMw == InitMw /\ [][NextMw]_vars

\* ------------------------------------------------------------------ properties
\* The successful GetTenantDB(k) results the tasks currently hold.
GotOk(t, k) == ret[t].op = "Get" /\ ret[t].key = k /\ ret[t].err = NoErr

NoFailure(k) == fails[k] = [ensure |-> 0, open |-> 0, migrate |-> 0]

\* C1: as long as no construction step for key k has failed and k was never
\* removed, however many tasks call GetTenantDB(k) concurrently, ensureSchema
\* and gorm.Open are each invoked at most once for k, exactly once as soon as
\* one call has returned, and all calls that returned hold the same connection.
C1_SingleConstruction ==
    \A k \in Keys :
        (NoFailure(k) /\ removals[k] = 0) =>
            /\ ensureCalls[k] <= 1
            /\ openCalls[k] <= 1
            /\ \A t \in Tasks :
                 GotOk(t, k) => /\ ensureCalls[k] = 1
                                /\ openCalls[k] = 1
                                /\ ret[t].db # NoConn
            /\ \A t, u \in Tasks :
                 (GotOk(t, k) /\ GotOk(u, k)) => ret[t].db = ret[u].db

\* Two tasks raced for the same absent key: one built the record, the other
\* found it at the double check, and both returned.
C1_Witness ==
    \E k \in Keys : \E t, u \in Tasks :
        /\ t # u
        /\ GotOk(t, k) /\ ret[t].via = "build"
        /\ GotOk(u, k) /\ ret[u].via = "doublecheck"
        /\ NoFailure(k) /\ removals[k] = 0

ConnsOf(k) == {c \in DOMAIN conns : conns[c].key = k}

GetLabels == {"g_rlock", "g_read", "g_wlock", "g_ensure", "g_open", "g_migrate",
              "hc_lock", "hc_ping"}

BuildLabels == {"g_ensure", "g_open", "g_migrate"}

\* C2: a connection that a successful GetTenantDB(k) returned and that no
\* RemoveTenantDB(k) or Close has closed since is the one instance stored in
\* k's record: while the record is live no caller holds another instance.
C2_OneInstanceWhileLive ==
    \A t \in Tasks : \A k \in Keys :
        (GotOk(t, k) /\ ret[t].db \in DOMAIN conns /\ ~ConnClosed(ret[t].db)) =>
            /\ Has(tenantDBs, k)
            /\ tenantDBs[k] = ret[t].db
            /\ \A u \in Tasks : GotOk(u, k) /\ ret[u].db \in DOMAIN conns
                                  /\ ~ConnClosed(ret[u].db)
                                  => ret[u].db = ret[t].db

\* One task built the record for k, another got it from the cache afterwards,
\* and the record is still live.
C2_Witness ==
    \E k \in Keys : \E t, u \in Tasks :
        /\ t # u
        /\ GotOk(t, k) /\ ret[t].via = "build"
        /\ GotOk(u, k) /\ ret[u].via = "hit"
        /\ Has(tenantDBs, k) /\ ~ConnClosed(tenantDBs[k])
        /\ ret[u].db = tenantDBs[k]

\* C3: a GetTenantDB(k) whose construction fails (ensureSchema, gorm.Open or
\* AutoMigrate) returns an error and a nil connection, and leaves the map as
\* it was when the call took the lock, without a record for k; no step of a
\* GetTenantDB call other than the store of a finished record changes the map.
C3_FailedConstructionLeavesMap ==
    [][\A t \in Tasks :
         /\ (pc[t] \in BuildLabels /\ pc'[t] = "idle" /\ ret'[t].err # NoErr) =>
               /\ ret'[t].err \in {"ensure", "open", "migrate"}
               /\ ret'[t].db = NoConn
               /\ tenantDBs' = snap[t]
               /\ ~Has(tenantDBs', key[t])
         /\ (pc[t] \in GetLabels /\ pc'[t] # pc[t]
               /\ ~(pc'[t] = "idle" /\ ret'[t].err = NoErr /\ ret'[t].via = "build")) =>
               tenantDBs' = tenantDBs
      ]_vars

\* A migration of key k failed while another key is cached: k has no record,
\* the other key's record is there.
C3_Witness ==
    \E t \in Tasks : \E k \in Keys :
        /\ ret[t].op = "Get" /\ ret[t].key = k /\ ret[t].err = "migrate"
        /\ ~Has(tenantDBs, k)
        /\ \E j \in Keys \ {k} : Has(tenantDBs, j)

\* C4: no GetTenantDB call invokes ensureSchema or gorm.Open more than once;
\* a call that gets past the double check runs the construction from the
\* start whatever failed before (every gorm.Open follows an ensureSchema of
\* its own call, every invocation either fails or yields a connection); a
\* failed call returns no connection; and with gorm.Open failing exactly once
\* for k and nothing else failing, a GetTenantDB(k) that succeeded means
\* ensureSchema and gorm.Open were each invoked exactly twice for k.
C4_RetryFromScratch ==
    /\ \A t \in Tasks :
         ret[t].op = "Get" =>
            /\ ret[t].ensures <= 1 /\ ret[t].opens <= 1
            /\ (ret[t].via = "build" /\ ret[t].err # "ensure") =>
                   (ret[t].ensures = 1 /\ ret[t].opens = 1)
            /\ (ret[t].err # NoErr) => ret[t].db = NoConn
    /\ \A k \in Keys :
         /\ openCalls[k] = fails[k].open + Cardinality(ConnsOf(k))
         /\ ensureCalls[k] = fails[k].ensure + openCalls[k]
                               + Cardinality({t \in Tasks : pc[t] = "g_open" /\ key[t] = k})
         /\ (fails[k] = [ensure |-> 0, open |-> 1, migrate |-> 0]
               /\ removals[k] = 0 /\ \E t \in Tasks : GotOk(t, k)) =>
                  (openCalls[k] = 2 /\ ensureCalls[k] = 2)

\* gorm.Open failed once for k, one call returned that error, and a later call
\* built the record with the second ensureSchema and the second gorm.Open.
C4_Witness ==
    \E k \in Keys : \E t, u \in Tasks :
        /\ fails[k] = [ensure |-> 0, open |-> 1, migrate |-> 0]
        /\ ret[t].op = "Get" /\ ret[t].key = k /\ ret[t].err = "open"
        /\ GotOk(u, k) /\ ret[u].via = "build" /\ ret[u].db # NoConn
        /\ openCalls[k] = 2 /\ ensureCalls[k] = 2
        /\ Has(tenantDBs, k)

\* C5: while k has a record in the map, no step invokes ensureSchema or
\* gorm.Open for k, and a GetTenantDB(k) that returns the cached record (at
\* the lookup or at the double check) has invoked neither.
C5_HitInvokesNothing ==
    [][/\ \A k \in Keys :
            Has(tenantDBs, k) => /\ ensureCalls'[k] = ensureCalls[k]
                                 /\ openCalls'[k] = openCalls[k]
       /\ \A t \in Tasks :
            (pc[t] \in GetLabels /\ pc'[t] = "idle"
               /\ ret'[t].via \in {"hit", "doublecheck"}) =>
                  (ret'[t].ensures = 0 /\ ret'[t].opens = 0
                     /\ ret'[t].err = NoErr /\ ret'[t].db # NoConn)
      ]_vars

\* A GetTenantDB(k) returned k's cached connection from the lookup; the
\* construction of k had run once and has not run again.
C5_Witness ==
    \E k \in Keys : \E t \in Tasks :
        /\ GotOk(t, k) /\ ret[t].via = "hit"
        /\ Has(tenantDBs, k) /\ ret[t].db = tenantDBs[k]
        /\ ensureCalls[k] = 1 /\ openCalls[k] = 1

Range(f) == {f[x] : x \in DOMAIN f}

\* C6: a GetTenantDB that found its record in the cache never waits for a
\* liveness probe: whenever such a call has not returned yet (it is about to
\* enter healthCheckWithInterval, or inside it), no probe is in progress
\* under healthMu, neither its own nor another call's.
C6_HitNeverWaitsForProbe ==
    \A t \in Tasks : pc[t] \in {"hc_lock", "hc_ping"} => healthMu = None

\* The step in which task t, inside RemoveTenantDB, had Close invoked on the
\* connection of its record, and Close returned nil / an error.
RemoveClosedOk(t) ==
    /\ pc[t] = "r_close"
    /\ conns'[db[t]].closeCalls = conns[db[t]].closeCalls + 1
    /\ conns'[db[t]].closeFails = conns[db[t]].closeFails

RemoveCloseFailed(t) ==
    /\ pc[t] = "r_close"
    /\ conns'[db[t]].closeFails = conns[db[t]].closeFails + 1

\* C7: a RemoveTenantDB(k) that finds k cached and closes its connection
\* without error returns nil, has invoked Close on that connection exactly
\* once and on no other, and leaves k out of the map and out of every list
\* that GetAllTenantSchemas can return, the other keys staying as they were.
C7_RemoveDropsAndCloses ==
    [][\A t \in Tasks :
         /\ RemoveClosedOk(t) =>
               /\ pc'[t] = "idle"
               /\ ret'[t].op = "Remove" /\ ret'[t].err = NoErr
               /\ \A c \in DOMAIN conns \ {db[t]} : conns'[c] = conns[c]
               /\ ~Has(tenantDBs', key[t])
               /\ \A s \in Orders(DOMAIN tenantDBs') : key[t] \notin Range(s)
               /\ \A j \in Keys \ {key[t]} :
                    /\ Has(tenantDBs', j) = Has(tenantDBs, j)
                    /\ Has(tenantDBs, j) => tenantDBs'[j] = tenantDBs[j]
         /\ (pc[t] = "r_close" /\ pc'[t] = "idle" /\ ret'[t].err = NoErr) =>
               RemoveClosedOk(t)
      ]_vars

\* A RemoveTenantDB(k) returned nil after closing k's connection once; k is
\* not in the map any more.
C7_Witness ==
    \E t \in Tasks : \E k \in Keys :
        /\ ret[t].op = "Remove" /\ ret[t].key = k /\ ret[t].err = NoErr
        /\ ret[t].db \in DOMAIN conns
        /\ conns[ret[t].db].closeCalls = 1
        /\ ~Has(tenantDBs, k)
        /\ removals[k] = 1

\* C8: a RemoveTenantDB(k) whose Close fails returns the close error and
\* drops k's record from the map all the same.
C8_RemoveDropsOnCloseError ==
    [][\A t \in Tasks :
         RemoveCloseFailed(t) =>
            /\ pc'[t] = "idle"
            /\ ret'[t].op = "Remove" /\ ret'[t].err = "close"
            /\ ~Has(tenantDBs', key[t])
      ]_vars

\* C9: a RemoveTenantDB(k) that finds no record for k returns nil and changes
\* nothing in the store; and a connection that is not in the map (its record
\* was removed) is not closed again, so a second RemoveTenantDB(k) closes
\* nothing.
C9_RemoveAbsentIsNoOp ==
    [][/\ \A t \in Tasks :
            (pc[t] = "r_lock" /\ pc'[t] # pc[t] /\ ~Has(tenantDBs, key[t])) =>
               /\ pc'[t] = "idle"
               /\ ret'[t].op = "Remove" /\ ret'[t].err = NoErr
               /\ UNCHANGED storeVars
       /\ \A c \in DOMAIN conns :
            (c \notin Range(tenantDBs)) => conns'[c].closeCalls = conns[c].closeCalls
      ]_vars

\* RemoveTenantDB(k) removed k's record, and a second RemoveTenantDB(k) found
\* nothing and returned nil: the connection was closed once.
C9_Witness ==
    \E k \in Keys : \E t \in Tasks :
        /\ removals[k] = 1
        /\ ret[t].op = "Remove" /\ ret[t].key = k /\ ret[t].err = NoErr
        /\ ret[t].db = NoConn
        /\ ~Has(tenantDBs, k)
        /\ \A c \in ConnsOf(k) : conns[c].closeCalls <= 1
        /\ \E c \in ConnsOf(k) : conns[c].closeCalls = 1

\* C10: when Close returns, whatever closes failed, the map is empty.
C10_CloseEmptiesMap ==
    [][\A t \in Tasks :
         (pc[t] = "c_close" /\ pc'[t] = "idle") => tenantDBs' = EmptyMap
      ]_vars

\* The step in which task t runs the body of Close and returns.
CloseReturns(t) == pc[t] = "c_close" /\ pc'[t] = "idle"

\* In that step, Close was invoked on connection c / on the master connection.
CloseInvoked(c) == conns'[c].closeCalls = conns[c].closeCalls + 1

CloseFailedOn(c) == conns'[c].closeFails = conns[c].closeFails + 1

MasterCloseInvoked == masterDB'.closeCalls = masterDB.closeCalls + 1

MasterCloseFailed == masterDB'.closeFails = masterDB.closeFails + 1

\* C11: Close goes through every cached connection and the master connection
\* whatever fails on the way: for each of them either Close is invoked once
\* or its db.DB() failure is reported; the error it returns names exactly the
\* connections whose db.DB() or Close failed, and it is nil exactly when
\* none failed.
C11_CloseAttemptsAllReportsAll ==
    [][\A t \in Tasks :
         CloseReturns(t) =>
            /\ ret'[t].op = "Close"
            /\ \A k \in DOMAIN tenantDBs :
                 /\ CloseInvoked(tenantDBs[k]) \/ conns'[tenantDBs[k]] = conns[tenantDBs[k]]
                 /\ k \in ret'[t].errs <=>
                       (CloseFailedOn(tenantDBs[k]) \/ ~CloseInvoked(tenantDBs[k]))
            /\ MasterCloseInvoked \/ masterDB' = masterDB
            /\ "master" \in ret'[t].errs <=> (MasterCloseFailed \/ ~MasterCloseInvoked)
            /\ ret'[t].errs \subseteq DOMAIN tenantDBs \cup {"master"}
            /\ ret'[t].err = NoErr <=> ret'[t].errs = {}
      ]_vars

\* Close ran over two cached connections, one of which failed to close: the
\* other and the master connection were closed all the same, and the error
\* names the one that failed.
C11_Witness ==
    \E t \in Tasks : \E k \in Keys :
        /\ ret[t].op = "Close" /\ ret[t].err # NoErr /\ ret[t].errs = {k}
        /\ DOMAIN tenantDBs = Keys
        /\ conns[tenantDBs[k]].closeFails = 1
        /\ \A j \in Keys \ {k} : /\ conns[tenantDBs[j]].closeCalls = 1
                                  /\ conns[tenantDBs[j]].closeFails = 0
        /\ masterDB.closeCalls = 1 /\ masterDB.closeFails = 0

\* C12: GetTenantDB with the empty schema returns an error and no connection
\* at once: it takes no lock, invokes neither ensureSchema nor gorm.Open and
\* leaves the store as it was; no call is ever past the check with an empty
\* schema.
C12_EmptyKeyRejected ==
    [][\A t \in Tasks :
         /\ (pc[t] = "idle" /\ calls' # calls /\ ret'[t].op = "Get"
               /\ ret'[t].key = EmptyKey) =>
               /\ pc'[t] = "idle"
               /\ ret'[t].err = "empty" /\ ret'[t].db = NoConn
               /\ ret'[t].ensures = 0 /\ ret'[t].opens = 0
               /\ UNCHANGED <<storeVars, lockVars, histVars>>
         /\ (pc'[t] \in GetLabels) => key'[t] \in Keys
      ]_vars

\* GetTenantDB("") returned its error while a record is cached.
C12_Witness ==
    \E t \in Tasks :
        /\ ret[t].op = "Get" /\ ret[t].key = EmptyKey /\ ret[t].err = "empty"
        /\ tenantDBs # EmptyMap
        /\ muWriter = None /\ muReaders = {}

\* C13: the step in which a liveness probe fails changes neither map, starts
\* no reset timer, and the GetTenantDB that ran the probe returns the cached
\* connection with a nil error.
C13_FailedProbeSwallowed ==
    [][\A t \in Tasks :
         (pc[t] = "hc_ping" /\ pc'[t] = "idle" /\ ret'[t].probeFailed) =>
            /\ tenantDBs' = tenantDBs
            /\ healthCheckDone' = healthCheckDone
            /\ timers' = timers
            /\ ret'[t].op = "Get" /\ ret'[t].key = key[t]
            /\ ret'[t].err = NoErr
            /\ ret'[t].db = db[t] /\ ret'[t].db # NoConn
      ]_vars

\* A GetTenantDB(k) whose probe failed returned k's connection, and k's
\* record is still in the map.
C13_Witness ==
    \E t \in Tasks : \E k \in Keys :
        /\ GotOk(t, k) /\ ret[t].probeFailed
        /\ Has(tenantDBs, k) /\ tenantDBs[k] = ret[t].db

RemoveLabels == {"r_lock", "r_close"}

\* C14: a step of a GetTenantDB(a) or RemoveTenantDB(a) call, whatever its
\* outcome, leaves every other key b as it was: present or absent as before,
\* with the same connection, on which no Close is invoked.
C14_OtherKeysUntouched ==
    [][\A t \in Tasks :
         (pc[t] \in GetLabels \cup RemoveLabels /\ pc'[t] # pc[t]) =>
            \A b \in Keys \ {key[t]} :
               /\ Has(tenantDBs', b) = Has(tenantDBs, b)
               /\ Has(tenantDBs, b) =>
                     /\ tenantDBs'[b] = tenantDBs[b]
                     /\ conns'[tenantDBs[b]] = conns[tenantDBs[b]]
               /\ (b \in DOMAIN healthCheckDone') = (b \in DOMAIN healthCheckDone)
      ]_vars

\* With b cached, a was built and then removed; b's record and its open
\* connection are still there.
C14_Witness ==
    \E t \in Tasks : \E a, b \in Keys :
        /\ a # b
        /\ ret[t].op = "Remove" /\ ret[t].key = a /\ ret[t].err = NoErr
        /\ ret[t].db # NoConn
        /\ ~Has(tenantDBs, a)
        /\ Has(tenantDBs, b) /\ ~ConnClosed(tenantDBs[b])

\* The keys for which a GetTenantDB built and stored a connection: gorm.Open
\* made more connections for the key than AutoMigrate then rejected.
SuccessfullyBuilt == {k \in Keys : Cardinality(ConnsOf(k)) > fails[k].migrate}

\* C15: the list GetAllTenantSchemas returns holds each key that has a record
\* when it is read exactly once and nothing else, so it is empty on a fresh
\* store and has n entries after n distinct keys were built and none removed;
\* the call changes nothing in the store.
C15_ListIsKeySet ==
    [][\A t \in Tasks :
         (pc[t] = "ga_read" /\ pc'[t] = "idle") =>
            /\ ret'[t].op = "GetAll"
            /\ Range(ret'[t].schemas) = DOMAIN tenantDBs
            /\ Len(ret'[t].schemas) = Cardinality(DOMAIN tenantDBs)
            /\ (conns = <<>>) => ret'[t].schemas = <<>>
            /\ (removals = [k \in Keys |-> 0]) =>
                  Len(ret'[t].schemas) = Cardinality(SuccessfullyBuilt)
            /\ UNCHANGED storeVars
      ]_vars

\* Both keys were built and GetAllTenantSchemas returned the two of them.
C15_Witness ==
    \E t \in Tasks :
        /\ ret[t].op = "GetAll"
        /\ Len(ret[t].schemas) = 2
        /\ Range(ret[t].schemas) = Keys
        /\ DOMAIN tenantDBs = Keys

\* C16: a call of New yields no store and an error exactly when its config is
\* nil or gorm.Open fails on the master DSN, and then nothing of a store
\* exists; when it yields a store the error is nil, the master connection is
\* open and the cache holds no record.
C16_NewFailsOrBuildsEmptyStore ==
    [][(newRet' # newRet) =>
         /\ newRet'.called
         /\ newRet'.store <=> ~(newRet'.cfgNil \/ ~newRet'.masterOk)
         /\ newRet'.store <=> (newRet'.err = NoErr)
         /\ ~newRet'.store =>
               /\ masterDB' = NilMaster
               /\ \A t \in Tasks : pc'[t] = "nostore"
         /\ newRet'.store =>
               /\ masterDB'.opened /\ ~MasterClosed'
               /\ tenantDBs' = EmptyMap
               /\ DOMAIN healthCheckDone' = {}
               /\ \A t \in Tasks : pc'[t] = "idle"
      ]_vars

\* New failed on the master connection: no store came back and no method can
\* be called.
C16_FailureWitness ==
    /\ newRet.called /\ ~newRet.cfgNil /\ ~newRet.masterOk
    /\ ~newRet.store /\ newRet.err = "master"
    /\ masterDB = NilMaster

\* New returned a store, and a first GetTenantDB on it found the cache empty
\* and built its connection through the open master connection.
C16_Witness ==
    /\ newRet.called /\ newRet.store /\ newRet.err = NoErr
    /\ masterDB.opened
    /\ \E t \in Tasks : \E k \in Keys :
          GotOk(t, k) /\ ret[t].via = "build" /\ calls = 1

\* The positions of the resolvers of a chain that return a nil error and a
\* non-empty tenant.
Yielding(results) ==
    {i \in DOMAIN results : results[i].err = NoErr /\ results[i].tenant # <<>>}

\* C17: a chain returns the tenant of the first resolver, in the given order,
\* that yields a nil error and a non-empty tenant, with a nil error and
\* having called no resolver after it; when no resolver yields one, and only
\* then, it returns an error of status 400 (having called them all).
C17_ChainFirstYielding ==
    (req.op = "chained") =>
        IF Yielding(req.results) # {}
          THEN \E f \in Yielding(req.results) :
                 /\ \A i \in Yielding(req.results) : f <= i
                 /\ req.tenant = req.results[f].tenant
                 /\ req.err = NoErr
                 /\ req.consulted = f
          ELSE /\ req.err # NoErr
               /\ req.status = 400
               /\ req.tenant = <<>>
               /\ req.consulted = Len(req.results)

\* A chain of three: the first resolver returned a nil error with an empty
\* tenant, the second and the third each a tenant; the chain returned the
\* second's and did not call the third.
C17_Witness ==
    /\ req.op = "chained"
    /\ Len(req.results) = 3
    /\ req.results[1] = [tenant |-> <<>>, err |-> NoErr]
    /\ req.results[2] = [tenant |-> <<"acme">>, err |-> NoErr]
    /\ req.results[3] = [tenant |-> <<"api">>, err |-> NoErr]
    /\ req.tenant = <<"acme">> /\ req.err = NoErr /\ req.consulted = 2

\* The host without its ':port' suffix: its longest prefix free of ':'.
BareHost(h) ==
    SubSeq(h, 1, CHOOSE n \in 0..Len(h) :
                    /\ \A i \in 1..n : h[i] # ":"
                    /\ n = Len(h) \/ h[n + 1] = ":")

Dots(x) == {i \in DOMAIN x : x[i] = "."}

\* The first label of x: what precedes its first dot (all of x if none).
FirstLabel(x) ==
    SubSeq(x, 1, CHOOSE n \in 0..Len(x) :
                    /\ \A i \in 1..n : x[i] # "."
                    /\ n = Len(x) \/ x[n + 1] = ".")

\* The last label of x: what follows its last dot.
LastLabel(x) ==
    SubSeq(x, (CHOOSE n \in 1..(Len(x) + 1) :
                    /\ \A i \in n..Len(x) : x[i] # "."
                    /\ n = 1 \/ x[n - 1] = "."), Len(x))

\* C19: with the ':port' suffix stripped and the host split on '.', the
\* resolver returns the first label with a nil error when there are at least
\* three labels, or two of which the second is 'localhost', and the first
\* label is none of 'www', 'api', 'localhost'; for every other host it
\* returns an error and no tenant.
C19_SubdomainRule ==
    (req.op = "subdomain") =>
        LET x == BareHost(req.host)
            n == Cardinality(Dots(x)) + 1
        IN IF /\ n >= 3 \/ (n = 2 /\ LastLabel(x) = <<"localhost">>)
              /\ FirstLabel(x) \notin {<<"www">>, <<"api">>, <<"localhost">>}
             THEN req.tenant = FirstLabel(x) /\ req.err = NoErr
             ELSE req.err # NoErr /\ req.tenant = <<>>

\* "acme.localhost:www" resolved to acme: the port was stripped and a host
\* of two labels ending in localhost accepted.
C19_Witness ==
    /\ req.op = "subdomain"
    /\ req.host = <<"acme", ".", "localhost", ":", "www">>
    /\ req.tenant = <<"acme">> /\ req.err = NoErr

\* C18: once Skip has returned true for the request, the next handler runs
\* (nothing else answers the request), the resolver and the store were never
\* called, and c.Locals holds no tenant and no tenant connection.
C18_SkipBypasses ==
    (mw.skipRet = "true") =>
        /\ mw.pc \in {"next", "done"}
        /\ mw.resolverCalls = 0
        /\ mw.storeCalls = 0
        /\ mw.callbackCalls = 0
        /\ \A k \in CtxKeys : mw.locals[k] = Unset
        /\ mw.pc = "done" => mw.handlerTenant = <<>> /\ mw.handlerDB = NoConn

\* A skipped request reached the next handler, which found no tenant and no
\* connection.
C18_Witness ==
    /\ mw.skipRet = "true"
    /\ mw.pc = "done"
    /\ mw.handlerTenant = <<>> /\ mw.handlerDB = NoConn

\* The next handler was called for a request that was not skipped: resolver,
\* store and callback (if any) succeeded.
PassedThrough == mw.pc \in {"next", "done"} /\ mw.skipRet # "true"

\* When the next handler is called the store was asked once, for the
\* resolved tenant, the tenant is under ContextKey and the connection the
\* store returned is under DBContextKey; the handler reads both back.
TenantAndDBInContext ==
    /\ mw.resolverCalls = 1
    /\ mw.storeCalls = 1 /\ mw.storeArg = mw.tenant
    /\ mw.locals[mw.ContextKey] = StringValue(mw.tenant)
    /\ mw.locals[mw.DBContextKey] = DBValue(mw.tenantDB)
    /\ mw.pc = "done" =>
          /\ mw.handlerTenant = mw.tenant
          /\ mw.handlerDB = mw.tenantDB

\* C20 as stated: for every request that is not skipped and for which
\* resolver, store and callback succeed, the next handler finds the resolved
\* tenant under ContextKey and the store's connection for it under
\* DBContextKey.
C20_ContextSetBeforeNext == PassedThrough => TenantAndDBInContext

\* C20, amended: the same, for a configuration whose ContextKey and
\* DBContextKey (after the defaults are filled in) are different keys.
C20_ContextSetBeforeNextDistinctKeys ==
    (PassedThrough /\ mw.ContextKey # mw.DBContextKey) => TenantAndDBInContext

\* With a custom DBContextKey, the default ContextKey and a callback, the
\* handler read back tenant acme and the connection the store returned.
C20_Witness ==
    /\ mw.pc = "done" /\ mw.skipRet = "false"
    /\ mw.ContextKey = "tenant" /\ mw.DBContextKey = "org"
    /\ mw.callbackCalls = 1
    /\ mw.tenant = <<"acme">> /\ mw.handlerTenant = <<"acme">>
    /\ mw.tenantDB = 2 /\ mw.handlerDB = 2

\* C21: MustGetTenant panics exactly when the context holds no non-empty
\* string under the key given (the default key "tenant" if none is given)
\* and otherwise returns what GetTenant returns; MustGetTenantDB panics
\* exactly when GetTenantDB returns nil and otherwise returns its value.
C21_MustHelpers ==
    /\ (mw.pc = "mustTenant") =>
          LET k == IF mw.helperKey = "" THEN "tenant" ELSE mw.helperKey
              held == mw.locals[k].kind = "string" /\ mw.locals[k].str # <<>>
          IN /\ mw.mustPanic <=> ~held
             /\ ~mw.mustPanic =>
                   /\ mw.mustTenant = GetTenant(mw.locals, mw.helperKey)
                   /\ mw.mustTenant = mw.locals[k].str
    /\ (mw.pc = "mustDB") =>
          /\ mw.mustPanic <=> (GetTenantDB(mw.locals, mw.helperKey) = NoConn)
          /\ ~mw.mustPanic => mw.mustDB = GetTenantDB(mw.locals, mw.helperKey)

\* MustGetTenant(c, "org") panicked on a context that holds the empty string
\* under "org" and a tenant under the default key.
C21_Witness ==
    /\ mw.pc = "mustTenant" /\ mw.helperKey = "org"
    /\ mw.locals["org"] = StringValue(<<>>)
    /\ mw.locals["tenant"] = StringValue(<<"acme">>)
    /\ mw.mustPanic

\* The step in which the probe that task t runs under healthMu completes.
ProbeCompletes(t) == pc[t] = "hc_ping" /\ pc'[t] = "idle"

\* C22: when a probe for key k completes, with the ping succeeded or failed,
\* k is marked as verified for the interval: its flag is set, so that the
\* hits that follow launch no probe, and a reset is pending that will clear
\* the flag once HealthCheckInterval has elapsed.
C22_CompletionMarksVerified ==
    [][\A t \in Tasks :
         ProbeCompletes(t) =>
            /\ MapGetBool(healthCheckDone', key[t])
            /\ timers'[key[t]] > 0
      ]_vars

\* C23: two successful probes for a key k are never less than
\* HealthCheckInterval apart, whatever GetTenantDB, RemoveTenantDB and timer
\* expirations come between them: the reset that a successful probe starts
\* sleeps for exactly the interval, so at no time are two resets for k
\* pending, and none started for an earlier record of k is there to clear
\* the flag of a later record.
C23_ProbesAnIntervalApart == \A k \in Keys : timers[k] <= 1

\* C24: whenever the flag of a key k is set (a probe for k succeeded), it is
\* eventually cleared again, so that the hit on k that comes next pings the
\* connection again.
C24_FlagEventuallyReset ==
    \A k \in Keys : MapGetBool(healthCheckDone, k) ~> ~MapGetBool(healthCheckDone, k)

\* Two hits on the same record of k each pinged it with success: the flag
\* the first one set was cleared by the reset before the second one came.
C24_Witness ==
    \E k \in Keys :
        /\ Has(tenantDBs, k)
        /\ \A t \in Tasks :
              /\ GotOk(t, k) /\ ret[t].via = "hit"
              /\ ret[t].pinged /\ ~ret[t].probeFailed
              /\ ret[t].db = tenantDBs[k]
        /\ removals[k] = 0
        /\ MapGetBool(healthCheckDone, k)

\* The tasks whose GetTenantDB(k) hit is running its ping.
Probing(k) == {t \in Tasks : pc[t] = "hc_ping" /\ key[t] = k}

\* C25: however many GetTenantDB(k) hits run concurrently, at most one of
\* them is pinging k's connection at any time.
C25_OneProbeInProgress == \A k \in Keys : Cardinality(Probing(k)) <= 1

\* One hit on k is pinging while another hit on k has found the record and
\* is about to check the flag.
C25_Witness ==
    \E k \in Keys : \E t, u \in Tasks :
        /\ t # u
        /\ pc[t] = "hc_ping" /\ key[t] = k
        /\ pc[u] = "hc_lock" /\ key[u] = k
        /\ ~MapGetBool(healthCheckDone, k)

\* C26: a step in which the record of a key k leaves the map, or comes to
\* hold another connection, is the step of a RemoveTenantDB(k) or of Close:
\* no step of GetTenantDB, of a probe, of a reset timer or of a call on
\* another key does that.
C26_OnlyRemoveOrCloseDrops ==
    [][\A k \in Keys :
         (Has(tenantDBs, k) /\ (~Has(tenantDBs', k) \/ tenantDBs'[k] # tenantDBs[k])) =>
            \/ \E t \in Tasks : pc[t] = "r_close" /\ key[t] = k /\ pc'[t] = "idle"
            \/ \E t \in Tasks : pc[t] = "c_close" /\ pc'[t] = "idle"
      ]_vars

\* The record of k has been through a hit whose probe failed and through a
\* RemoveTenantDB of another key, and still holds the connection it held.
C26_Witness ==
    \E k \in Keys : \E t, u \in Tasks :
        /\ GotOk(t, k) /\ ret[t].probeFailed
        /\ ret[u].op = "Remove" /\ ret[u].key # k /\ ret[u].err = NoErr
        /\ Has(tenantDBs, k) /\ tenantDBs[k] = ret[t].db
        /\ ConnsOf(k) = {tenantDBs[k]}

\* The positions at which a task holds the shared lock.
ReadLabels == {"g_read", "ga_read"}

\* In this step task t ends a construction for k in which ensureSchema,
\* gorm.Open and, when configured, AutoMigrate each ran once and succeeded,
\* and c is the connection it opened.
CompletesConstruction(t, k, c) ==
    /\ key[t] = k /\ made[t].ensures = 1
    /\ pc'[t] = "idle" /\ ret'[t].err = NoErr /\ ret'[t].db = c
    /\ \/ autoMigrate /\ pc[t] = "g_migrate" /\ made[t].opens = 1 /\ db[t] = c
       \/ ~autoMigrate /\ pc[t] = "g_open" /\ c = Len(conns) + 1

\* C27: every record in the map holds a non-nil connection that gorm.Open
\* returned for its key, and a record enters the map only in the step that
\* ends a construction whose ensureSchema, open and (when configured)
\* AutoMigrate all succeeded; while a construction for k is under way k has
\* no record and no task holds the shared lock, so neither a GetTenantDB
\* lookup nor GetAllTenantSchemas can see it.
C27_NoPartialRecord ==
    [][/\ \A k \in Keys :
            Has(tenantDBs', k) =>
               /\ tenantDBs'[k] # NoConn
               /\ tenantDBs'[k] \in DOMAIN conns'
               /\ conns'[tenantDBs'[k]].key = k
               /\ (~Has(tenantDBs, k) \/ tenantDBs[k] # tenantDBs'[k]) =>
                     \E t \in Tasks : CompletesConstruction(t, k, tenantDBs'[k])
       /\ \A t \in Tasks :
            pc'[t] \in BuildLabels =>
               /\ ~Has(tenantDBs', key'[t])
               /\ muWriter' = t /\ muReaders' = {}
               /\ \A u \in Tasks : pc'[u] \notin ReadLabels
               /\ \A k \in Keys : Has(tenantDBs', k) => tenantDBs'[k] # db'[t]
      ]_vars

\* A connection for one key is open and being migrated, not yet stored,
\* while a GetAllTenantSchemas waits for the shared lock and another key has
\* its record.
C27_Witness ==
    \E t, u \in Tasks : \E k \in Keys :
        /\ pc[t] = "g_migrate" /\ db[t] \in DOMAIN conns
        /\ ~Has(tenantDBs, key[t])
        /\ pc[u] = "ga_rlock"
        /\ Has(tenantDBs, k) /\ k # key[t]

\* The tasks inside a critical section of mu.Lock: a construction sequence,
\* the body of RemoveTenantDB, the body of Close.
InCritical == {t \in Tasks : pc[t] \in BuildLabels \cup {"r_close", "c_close"}}

\* The tasks that hold the shared lock: a GetTenantDB lookup, a
\* GetAllTenantSchemas.
Reading == {t \in Tasks : pc[t] \in ReadLabels}

\* C28: at any time at most one task is inside a construction sequence, a
\* RemoveTenantDB or a Close, whatever the keys, and while one is, it holds
\* mu exclusively and no task holds the shared lock.
C28_WritersExclusive ==
    /\ Cardinality(InCritical) <= 1
    /\ \A t \in InCritical : muWriter = t /\ Reading = {} /\ muReaders = {}
    /\ muReaders = Reading
    /\ muWriter # None => muWriter \in InCritical

\* A Close is inside its critical section while a GetTenantDB that missed
\* its key waits for the exclusive lock to build it.
C28_Witness ==
    \E t, u \in Tasks :
        /\ pc[t] = "c_close" /\ muWriter = t
        /\ pc[u] = "g_wlock"
        /\ tenantDBs # EmptyMap

\* C29: when the ctx of a GetTenantDB(k) call is done at any point of its
\* construction sequence, k has no record while the sequence is under way,
\* and when the call returns it has either failed, leaving the map as it
\* was, or stored the record of a construction all of whose steps succeeded.
C29_CancelLeavesNoPartialRecord ==
    [][\A t \in Tasks :
         (pc[t] \in BuildLabels /\ made[t].ctxDone) =>
            /\ ~Has(tenantDBs, key[t])
            /\ pc'[t] \in BuildLabels => tenantDBs' = tenantDBs
            /\ pc'[t] = "idle" =>
                  /\ ret'[t].ctxDone
                  /\ IF ret'[t].err # NoErr
                       THEN ret'[t].db = NoConn /\ tenantDBs' = tenantDBs
                       ELSE /\ CompletesConstruction(t, key[t], ret'[t].db)
                            /\ tenantDBs' = MapPut(tenantDBs, key[t], ret'[t].db)
      ]_vars

\* One call failed in ensureSchema on a cancelled ctx and its key has no
\* record; the ctx of another was cancelled after ensureSchema, it went on
\* to build its record and returned it.
C29_Witness ==
    \E t, u \in Tasks :
        /\ ret[t].op = "Get" /\ ret[t].ctxDone /\ ret[t].err = "ensure"
        /\ ~Has(tenantDBs, ret[t].key)
        /\ ret[u].op = "Get" /\ ret[u].ctxDone /\ ret[u].err = NoErr
        /\ ret[u].via = "build"
        /\ Has(tenantDBs, ret[u].key) /\ tenantDBs[ret[u].key] = ret[u].db

\* The error of the first of resolver, store and callback that failed, in the
\* order the handler calls them (nil if none failed).
FirstFailure ==
    IF mw.resolverErr # NoErr THEN mw.resolverErr
    ELSE IF mw.storeErr # NoErr THEN mw.storeErr
    ELSE mw.callbackErr

\* C30: for a request that is not skipped, the store is called only after
\* the resolver returned no error and the callback only after the store
\* returned none; the next handler is called only when all of them (the
\* callback when set) were called and returned no error; after the first
\* failure ErrorHandler is invoked exactly once, with that error, no later
\* step is called and the next handler is not called.
C30_NextOnlyAfterAllSucceed ==
    (mw.pc \in {"resolve", "store", "callback", "next", "done", "error"}
       /\ mw.skipRet # "true") =>
        /\ mw.resolverCalls <= 1 /\ mw.storeCalls <= 1 /\ mw.callbackCalls <= 1
        /\ mw.storeCalls = 1 => mw.resolverCalls = 1 /\ mw.resolverErr = NoErr
        /\ mw.callbackCalls = 1 =>
              mw.hasCallback /\ mw.storeCalls = 1 /\ mw.storeErr = NoErr
        /\ mw.nextCalls <= 1
        /\ mw.nextCalls = 1 =>
              /\ mw.resolverCalls = 1 /\ mw.storeCalls = 1
              /\ mw.hasCallback => mw.callbackCalls = 1
              /\ FirstFailure = NoErr
              /\ mw.errorHandlerCalls = 0
        /\ FirstFailure # NoErr =>
              /\ mw.pc = "error"
              /\ mw.errorHandlerCalls = 1 /\ mw.errArg = FirstFailure
              /\ mw.nextCalls = 0
              /\ mw.resolverErr # NoErr => mw.storeCalls = 0 /\ mw.callbackCalls = 0
              /\ mw.storeErr # NoErr => mw.callbackCalls = 0
        /\ FirstFailure = NoErr => mw.errorHandlerCalls = 0 /\ mw.pc # "error"

\* Resolver and store succeeded, the callback failed: ErrorHandler was
\* invoked once with the callback's error and the next handler never ran.
C30_Witness ==
    /\ mw.pc = "error" /\ mw.skipRet = "false"
    /\ mw.resolverCalls = 1 /\ mw.storeCalls = 1 /\ mw.callbackCalls = 1
    /\ mw.errorHandlerCalls = 1 /\ mw.errArg = "callback failed"
    /\ mw.nextCalls = 0

\* C31: New panics exactly when the effective configuration has a nil Store,
\* which includes every call without a Config argument; otherwise the
\* handler's Resolver, ContextKey, DBContextKey and ErrorHandler are the
\* caller's where the caller set them and the defaults where not, and Store,
\* Skip and OnTenantResolved are the caller's.
C31_NewDefaultsAndPanic ==
    mw.pc # "none" =>
        /\ mw.pc = "panic" <=> (~mw.arg.given \/ mw.arg.cfg.Store = "nil")
        /\ mw.pc # "panic" =>
              LET c == mw.arg.cfg
              IN /\ mw.Resolver =
                      IF c.Resolver = "nil" THEN "SubdomainResolver" ELSE c.Resolver
                 /\ mw.ContextKey =
                      IF c.ContextKey = "" THEN "tenant" ELSE c.ContextKey
                 /\ mw.DBContextKey =
                      IF c.DBContextKey = "" THEN "tenant_db" ELSE c.DBContextKey
                 /\ mw.ErrorHandler =
                      IF c.ErrorHandler = "nil" THEN "default" ELSE c.ErrorHandler
                 /\ mw.Store = c.Store
                 /\ mw.hasSkip = c.Skip
                 /\ mw.hasCallback = c.OnTenantResolved

\* New got a Config with a Store, its own Resolver and DBContextKey, and no
\* ContextKey or ErrorHandler: the handler keeps the former and has the
\* defaults for the latter.
C31_Witness ==
    /\ mw.pc = "handler" /\ mw.arg.given
    /\ mw.arg.cfg.Resolver = "custom" /\ mw.Resolver = "custom"
    /\ mw.arg.cfg.DBContextKey = "org" /\ mw.DBContextKey = "org"
    /\ mw.arg.cfg.ContextKey = "" /\ mw.ContextKey = "tenant"
    /\ mw.arg.cfg.ErrorHandler = "nil" /\ mw.ErrorHandler = "default"

\* New() without a Config argument panicked.
C31_PanicWitness == mw.pc = "panic" /\ ~mw.arg.given

\* Task t returns from a GetTenantDB call with a connection and no error.
GetReturnsOk(t) ==
    /\ pc[t] # "idle" /\ pc'[t] = "idle"
    /\ ret'[t].op = "Get" /\ ret'[t].err = NoErr

\* C32: under any interleaving of GetTenantDB, RemoveTenantDB and Close, the
\* connection a successful GetTenantDB returns has not been closed by
\* RemoveTenantDB or Close at the moment the call returns.
C32_ReturnedConnectionOpen ==
    [][\A t \in Tasks :
         GetReturnsOk(t) => conns'[ret'[t].db].closeCalls = 0]_vars

\* The step is taken by a task that holds healthMu, or it is a reset
\* goroutine's lock, write and unlock.
UnderHealthMu ==
    \/ \E t \in Tasks : healthMu = t /\ pc'[t] # pc[t]
    \/ timers' # timers /\ healthMu = None /\ pc' = pc

\* C33: every write of the healthCheckDone map (by healthCheckWithInterval,
\* its reset goroutine, the slow path of GetTenantDB and RemoveTenantDB) is
\* made while holding healthMu, so that no task writes the map while another
\* is inside its healthMu critical section.
C33_FlagsOnlyUnderHealthMu ==
    [][healthCheckDone' # healthCheckDone => UnderHealthMu]_vars

\* No operation of the store is in progress.
Quiescent == \A t \in Tasks : pc[t] = "idle"

\* C34: whenever no operation is in progress, every key of healthCheckDone
\* is a key of tenantDBs: after RemoveTenantDB(k) no bookkeeping for k is
\* left or comes back, also when a reset timer for k fires later.
C34_FlagsOnlyForCachedKeys ==
    Quiescent => DOMAIN healthCheckDone \subseteq DOMAIN tenantDBs

\* The GetTenantDB call that opened connection c has not returned yet.
BeingBuilt(c) == \E t \in Tasks : pc[t] = "g_migrate" /\ db[t] = c

\* Connection c is the cached record of some tenant.
Cached(c) == \E k \in DOMAIN tenantDBs : tenantDBs[k] = c

\* C35: every tenant connection the store opened is, once the GetTenantDB
\* call that opened it has returned, stored in the cache map or closed; a
\* failed AutoMigrate leaves no open connection outside the map.
C35_OpenedIsCachedOrClosed ==
    \A c \in DOMAIN conns :
        ~BeingBuilt(c) => Cached(c) \/ conns[c].closeCalls > 0

\* C36: over any sequence of RemoveTenantDB and Close calls the store
\* invokes close at most once on each tenant connection and at most once on
\* the master connection.
C36_ClosedAtMostOnce ==
    /\ \A c \in DOMAIN conns : conns[c].closeCalls <= 1
    /\ masterDB.closeCalls <= 1

\* Task t waits for mu, which another task holds.
WaitsForMu(t) ==
    /\ pc[t] \in {"g_rlock", "g_wlock", "r_lock", "c_lock", "ga_rlock"}
    /\ muWriter \notin {None, t}

\* C37: when every collaborator call returns, every GetTenantDB,
\* RemoveTenantDB, GetAllTenantSchemas and Close call of a finite set of
\* concurrent calls eventually returns and every pending reset timer
\* eventually fires: mu and healthMu are never acquired in a way that
\* deadlocks, so from some point on no call is in progress, no timer is
\* pending and both locks are free.
C37_EveryCallReturns ==
    <>[](/\ Quiescent
         /\ \A k \in Keys : timers[k] = 0
         /\ muWriter = None /\ muReaders = {} /\ healthMu = None)

\* A task waits for mu while another task, which took it as a writer after
\* a record had been built, is about to close that record's connection.
C37_Witness ==
    \E t, u \in Tasks :
        /\ WaitsForMu(t)
        /\ muWriter = u /\ pc[u] \in {"r_close", "c_close"}
        /\ tenantDBs # EmptyMap

\* A built-in resolver has run on the request.
ResolverRan == req.op \in {"subdomain", "header", "path", "query", "chained"}

\* C38: every built-in resolver (SubdomainResolver, HeaderResolver,
\* PathPrefixResolver, QueryParamResolver, ChainResolvers) that returns a
\* nil error returns a non-empty tenant key, for every request, hosts with
\* an empty first label included.
C38_ResolvedKeyNonEmpty ==
    (ResolverRan /\ req.err = NoErr) => req.tenant # <<>>

====
